---- MODULE Spec2Model ----
(***************************************************************************)
(* A model of the fyrebot backend: the quota ledger (rate-limit.js), the   *)
(* tenant directory with its read-through cache (tenant.service.js), the   *)
(* section store (data.service.js) and the tiered retrieval engine         *)
(* (vector-search.service.js).                                             *)
(*                                                                         *)
(* Every handler is an async function: it is cut into one action per       *)
(* await (a suspension point), and the code between two awaits is part of  *)
(* the action of the await that precedes it.  Each subsystem has its own   *)
(* specification; the variables of the other subsystems stay at their      *)
(* idle values.                                                            *)
(***************************************************************************)
EXTENDS Integers, Sequences, FiniteSets, TLC

VARIABLES
    \* ---- RedisClient (db/redis.js) ----
    isConnected,    \* RedisClient.isConnected
    everDown,       \* history: the store has been unavailable at some point
    \* ---- quota ledger (middleware/rate-limit.js) ----
    limits,         \* request.tenant.limits of the one tenant of the ledger
    counters,       \* counter store: key -> integer count (0: key absent)
    expiry,         \* counter store: key -> TTL in seconds (0: no expiry set)
    rpc,            \* request -> position in the preHandler chain
    minuteCount,    \* request -> local minuteCount
    hourCount,      \* request -> local hourCount
    usageCount,     \* request -> local usageCount
    reply,          \* request -> the reply sent by the preHandlers
    \* ---- tenant directory (services/tenant.service.js) ----
    tenantDoc,      \* the tenant's document in the tenants collection
    cacheTenant,    \* cache entry tenant:<id>: <<>> (absent) or <<document>>
    cacheApiKey,    \* cache entries apikey:<hash>: the hashes that map to the tenant
    issued,         \* the API keys generated so far
    tpc,            \* call -> position in the running TenantService method
    top,            \* call -> the method it runs (or ran last)
    tkey,           \* call -> the API key it was given (0: none)
    tresult,        \* call -> <<>> or <<the tenant it holds / returned>>
    fresh,          \* history: the call began after every mutation so far had
                    \* returned, and no mutation began since
    overlapped,     \* history: a lookup and a mutation have been in progress at
                    \* the same time
    opsLeft,        \* call slot -> calls it may still make
    \* ---- section store and retrieval (services/data.service.js,
    \*      services/vector-search.service.js) ----
    sections,       \* the sections collection: a set of section documents
    chunks,         \* the chunks collection: chunk rows in insertion order
    owner,          \* history: section id -> the tenant it was generated for
                    \* (generateId.section() yields Len(owner) + 1)
    nextChunk,      \* the next value of generateId.chunk()
    dpc,            \* worker -> position in the running service method
    dop,            \* worker -> the method it runs (or ran)
    dtenant,        \* worker -> the tenantId argument of the call
    darg,           \* worker -> the other arguments of the call
    dlocal,         \* worker -> the local variables of the call
    dresult,        \* worker -> the value returned or the error thrown
    \* ---- chat (services/chat.service.js) ----
    cpc,            \* worker -> position in ChatService.processQuery
    clocal,         \* worker -> the arguments and locals of processQuery, and
                    \* history: the completion calls and history writes it made
    cresult,        \* worker -> what processQuery returned or threw
    session,        \* the value of the key session:<sessionId>: the messages
    sessionTtl,     \* the time to live of that key in seconds (0: none)
    \* ---- the clock (Date.now() in rate-limit.js) ----
    now,            \* the time, in half minutes
    requestTime,    \* request -> the time at which it computed its minuteKey
    \* ---- chunkText (utils/helpers.js) and EmbeddingService ----
    chunkArg,       \* the arguments of the chunkText call
    chunkResult,    \* what the call returned, and history: the turns of its loop
    useMockEmbeddings,  \* EmbeddingService.useMockEmbeddings
    embedCalls,     \* history: the embedding calls made so far, with results
    \* ---- retryWithBackoff (utils/helpers.js) ----
    retryCall       \* the arguments and locals of a retryWithBackoff call, and
                    \* history: what fn did at each invocation, and the waits

redisVars  == <<isConnected, everDown>>
rateVars   == <<limits, counters, expiry, rpc, minuteCount, hourCount, usageCount, reply>>
tenantVars == <<tenantDoc, cacheTenant, cacheApiKey, issued, tpc, top, tkey, tresult,
                fresh, overlapped, opsLeft>>
dataVars   == <<sections, chunks, owner, nextChunk, dpc, dop, dtenant, darg, dlocal,
                dresult>>
chatVars   == <<cpc, clocal, cresult, session, sessionTtl>>
clockVars  == <<now, requestTime>>
unitVars   == <<chunkArg, chunkResult, useMockEmbeddings, embedCalls, retryCall>>
vars       == <<redisVars, rateVars, tenantVars, dataVars, chatVars, clockVars, unitVars>>

----------------------------------------------------------------------------
\* Bounds of the model.

\* concurrent requests of the tenant in one minute / hour / month bucket
NumRequests == 2
\* limits.requestsPerMinute ranges over 1..MaxPerMinute
MaxPerMinute == 2
\* limits.requestsPerHour ranges over 1..MaxPerHour
MaxPerHour == 3
\* limits.apiCallsPerMonth ranges over 1..MaxPerMonth
MaxPerMonth == 2

\* Program constants.
MinuteTtl == 60
HourTtl == 3600
MonthTtl == 5184000
RetryAfterMinute == 60
RetryAfterHour == 3600

Min(a, b) == IF a <= b THEN a ELSE b

\* chunkText has not been called
NoChunkArg == [text |-> <<>>, chunkSize |-> 1, overlap |-> 0]
NotCalled == [called |-> FALSE, chunks |-> <<>>, turns |-> 0]
\* no retryWithBackoff call is modelled
NoRetry == [maxRetries |-> 0, initialDelay |-> 0, pc |-> "off", i |-> 0,
            outcomes |-> <<>>, delays |-> <<>>, result |-> "", lastError |-> "undefined"]

----------------------------------------------------------------------------
\* RedisClient: every operation returns null and does nothing while the
\* client is not connected.  A null reply is modelled as 0: the callers only
\* use it in `x === 1`, `x > limit` and `x ? parseInt(x) : 0`, where null
\* behaves as 0 does.

Requests == 1..NumRequests
CounterKeys == {"minute", "hour", "month"}

RedisDisconnect ==
    /\ isConnected
    /\ isConnected' = FALSE
    /\ everDown' = TRUE
    /\ UNCHANGED <<rateVars, tenantVars, dataVars, chatVars, clockVars, unitVars>>

RedisReconnect ==
    /\ ~isConnected
    /\ isConnected' = TRUE
    /\ UNCHANGED <<everDown, rateVars, tenantVars, dataVars, chatVars, clockVars, unitVars>>

\* redis.incr(key): the reply
IncrReply(key) == IF isConnected THEN counters[key] + 1 ELSE 0
\* redis.incr(key): the store afterwards
IncrStore(key) == IF isConnected THEN [counters EXCEPT ![key] = @ + 1] ELSE counters
\* redis.get(key) without the isConnected guard: the store's value whatever
\* the state of the connection
GetReplyUnguarded(key) == counters[key]
\* redis.get(key): the reply
GetReply(key) == IF isConnected THEN counters[key] ELSE 0
\* redis.expire(key, seconds): the store afterwards
ExpireStore(key, seconds) ==
    IF isConnected /\ counters[key] > 0 THEN [expiry EXCEPT ![key] = seconds] ELSE expiry

----------------------------------------------------------------------------
\* rateLimiter and checkMonthlyLimit, the preHandlers of POST /v1/chat.

NoReply == [code |-> 0, retryAfter |-> 0, used |-> 0, limit |-> 0]
RateLimited(retry) == [code |-> 429, retryAfter |-> retry, used |-> 0, limit |-> 0]
MonthlyExceeded(used, limit) == [code |-> 429, retryAfter |-> 0, used |-> used, limit |-> limit]

\* `count > limit` with the strict comparison turned into >=
ExceedsLimitOffByOne(count, limit) == count >= limit
\* minuteCount > limits.requestsPerMinute, hourCount > limits.requestsPerHour
ExceedsLimit(count, limit) == count > limit

\* `usageCount >= limit` with the comparison turned into >
QuotaExceeded(used, limit) == used > limit
\* usageCount >= limits.apiCallsPerMonth
QuotaReached(used, limit) == used >= limit

\* the minute check with its `return` dropped: the 429 is sent and the
\* handler goes on to the hour bucket
AfterMinuteFallsThrough(r, count) ==
    /\ reply' = [reply EXCEPT ![r] = IF ExceedsLimit(count, limits.requestsPerMinute)
                                     THEN RateLimited(RetryAfterMinute) ELSE @]
    /\ rpc' = [rpc EXCEPT ![r] = "hourIncr"]
    /\ minuteCount' = [minuteCount EXCEPT ![r] = count]

\* the code of rateLimiter after the minute bucket's expiry is settled; the
\* locals of a call that has returned are dropped (set to 0)
AfterMinute(r, count) ==
    IF ExceedsLimit(count, limits.requestsPerMinute)
    THEN /\ reply' = [reply EXCEPT ![r] = RateLimited(RetryAfterMinute)]
         /\ rpc' = [rpc EXCEPT ![r] = "rejectedMinute"]
         /\ minuteCount' = [minuteCount EXCEPT ![r] = 0]
    ELSE /\ reply' = reply
         /\ rpc' = [rpc EXCEPT ![r] = "hourIncr"]
         /\ minuteCount' = [minuteCount EXCEPT ![r] = count]

\* the code of rateLimiter after the hour bucket's expiry is settled
AfterHour(r, count) ==
    /\ minuteCount' = [minuteCount EXCEPT ![r] = 0]
    /\ hourCount' = [hourCount EXCEPT ![r] = 0]
    /\ IF ExceedsLimit(count, limits.requestsPerHour)
       THEN /\ reply' = [reply EXCEPT ![r] = RateLimited(RetryAfterHour)]
            /\ rpc' = [rpc EXCEPT ![r] = "rejectedHour"]
       ELSE /\ reply' = reply
            /\ rpc' = [rpc EXCEPT ![r] = "monthGet"]

\* const minuteCount = await redis.incr(minuteKey)
RateLimiterIncrMinute(r) ==
    /\ rpc[r] = "minuteIncr"
    /\ counters' = IncrStore("minute")
    /\ IF IncrReply("minute") = 1
       THEN /\ rpc' = [rpc EXCEPT ![r] = "minuteExpire"]
            /\ minuteCount' = [minuteCount EXCEPT ![r] = 1]
            /\ reply' = reply
       ELSE AfterMinute(r, IncrReply("minute"))
    /\ UNCHANGED <<redisVars, limits, expiry, hourCount, usageCount>>
    /\ requestTime' = [requestTime EXCEPT ![r] = now]
    /\ UNCHANGED <<now, tenantVars, dataVars, chatVars, unitVars>>

\* await redis.expire(minuteKey, 60)
RateLimiterExpireMinute(r) ==
    /\ rpc[r] = "minuteExpire"
    /\ expiry' = ExpireStore("minute", MinuteTtl)
    /\ AfterMinute(r, minuteCount[r])
    /\ UNCHANGED <<redisVars, limits, counters, hourCount, usageCount>>
    /\ UNCHANGED <<tenantVars, dataVars, chatVars, clockVars, unitVars>>

\* const hourCount = await redis.incr(hourKey)
RateLimiterIncrHour(r) ==
    /\ rpc[r] = "hourIncr"
    /\ counters' = IncrStore("hour")
    /\ IF IncrReply("hour") = 1
       THEN /\ rpc' = [rpc EXCEPT ![r] = "hourExpire"]
            /\ hourCount' = [hourCount EXCEPT ![r] = 1]
            /\ UNCHANGED <<minuteCount, reply>>
       ELSE AfterHour(r, IncrReply("hour"))
    /\ UNCHANGED <<redisVars, limits, expiry, usageCount>>
    /\ UNCHANGED <<tenantVars, dataVars, chatVars, clockVars, unitVars>>

\* await redis.expire(hourKey, 3600)
RateLimiterExpireHour(r) ==
    /\ rpc[r] = "hourExpire"
    /\ expiry' = ExpireStore("hour", HourTtl)
    /\ AfterHour(r, hourCount[r])
    /\ UNCHANGED <<redisVars, limits, counters, usageCount>>
    /\ UNCHANGED <<tenantVars, dataVars, chatVars, clockVars, unitVars>>

\* const monthlyUsage = await redis.get(monthKey), and the quota test
CheckMonthlyLimitGet(r) ==
    /\ rpc[r] = "monthGet"
    /\ IF QuotaReached(GetReply("month"), limits.apiCallsPerMonth)
       THEN /\ reply' = [reply EXCEPT ![r] =
                            MonthlyExceeded(GetReply("month"), limits.apiCallsPerMonth)]
            /\ rpc' = [rpc EXCEPT ![r] = "rejectedMonth"]
            /\ usageCount' = usageCount
       ELSE /\ reply' = reply
            /\ rpc' = [rpc EXCEPT ![r] = "monthIncr"]
            /\ usageCount' = [usageCount EXCEPT ![r] = GetReply("month")]
    /\ UNCHANGED <<redisVars, limits, counters, expiry, minuteCount, hourCount>>
    /\ UNCHANGED <<tenantVars, dataVars, chatVars, clockVars, unitVars>>

\* await redis.incr(monthKey)
CheckMonthlyLimitIncr(r) ==
    /\ rpc[r] = "monthIncr"
    /\ counters' = IncrStore("month")
    /\ rpc' = [rpc EXCEPT ![r] = IF usageCount[r] = 0 THEN "monthExpire" ELSE "admitted"]
    /\ usageCount' = [usageCount EXCEPT ![r] = 0]
    /\ UNCHANGED <<redisVars, limits, expiry, minuteCount, hourCount, reply>>
    /\ UNCHANGED <<tenantVars, dataVars, chatVars, clockVars, unitVars>>

\* await redis.expire(monthKey, 60 * 24 * 3600)
CheckMonthlyLimitExpire(r) ==
    /\ rpc[r] = "monthExpire"
    /\ expiry' = ExpireStore("month", MonthTtl)
    /\ rpc' = [rpc EXCEPT ![r] = "admitted"]
    /\ UNCHANGED <<redisVars, limits, counters, minuteCount, hourCount, usageCount, reply>>
    /\ UNCHANGED <<tenantVars, dataVars, chatVars, clockVars, unitVars>>

RateNext ==
    \/ RedisDisconnect
    \/ RedisReconnect
    \/ \E r \in Requests :
        \/ RateLimiterIncrMinute(r)
        \/ RateLimiterExpireMinute(r)
        \/ RateLimiterIncrHour(r)
        \/ RateLimiterExpireHour(r)
        \/ CheckMonthlyLimitGet(r)
        \/ CheckMonthlyLimitIncr(r)
        \/ CheckMonthlyLimitExpire(r)

----------------------------------------------------------------------------
\* TenantService: one tenant, its cache entries, concurrent lookups and one
\* mutating caller.  The first store or cache call of a method takes effect
\* in the action that begins the call.

\* lookup slots (getTenant, getTenantByApiKey, listApiKeys)
NumLookups == 2
\* calls per lookup slot
MaxLookupCalls == 1
\* calls of the mutating caller
MaxMutations == 1
\* API keys that can be generated (key 1 is the tenant's default key)
NumApiKeys == 2

Mutator == 0
Lookups == 1..NumLookups
Calls == {Mutator} \cup Lookups
ApiKeys == 1..NumApiKeys
Plans == {"free", "pro"}
BusinessNames == {"acme", "acme ltd"}

\* PLANS[plan.toUpperCase()].limits
PlanLimits(plan) ==
    IF plan = "free"
    THEN [apiCallsPerMonth |-> 1000, sectionsPerTenant |-> 10, tokensPerRequest |-> 2000,
          requestsPerMinute |-> 10, requestsPerHour |-> 100]
    ELSE [apiCallsPerMonth |-> 10000, sectionsPerTenant |-> 100, tokensPerRequest |-> 4000,
          requestsPerMinute |-> 30, requestsPerHour |-> 500]

\* register(): the tenant document as stored, with its default key (key 1)
RegisteredTenant(plan) ==
    [status |-> "active", plan |-> plan, limits |-> PlanLimits(plan),
     businessName |-> "acme", apiKeys |-> {<<"sha256", 1>>}, lastUsed |-> {}]

\* hashApiKey: sha256 of the key, a value of its own kind that is equal for
\* equal keys only
hashApiKey(apiKey) == <<"sha256", apiKey>>

\* redis.get(key) of a cache entry: null (<<>>) while not connected
CacheGet(entry) == IF isConnected THEN entry ELSE <<>>
\* redis.set(key, value, ttl): nothing is written while not connected
CacheSet(entry, value) == IF isConnected THEN value ELSE entry
\* redis.del(key): nothing is deleted while not connected
CacheDel(entry) == IF isConnected THEN <<>> ELSE entry

\* the filter { tenantId, status: 'active' }
Active(doc) == doc.status = "active"

\* the filter { 'apiKeys.keyHash': keyHash, status: 'active' }
HasKey(doc, keyHash) == Active(doc) /\ keyHash \in doc.apiKeys

\* the projection { 'apiKeys.$': 1, tenantId, email, businessName, plan, limits }
Projection(doc, keyHash) ==
    [doc EXCEPT !.apiKeys = {keyHash}, !.lastUsed = doc.lastUsed \cap {keyHash}]

Quiet(c) == tpc[c] \in {"idle", "returned", "threw"}
CanCall(c) == Quiet(c) /\ opsLeft[c] > 0

\* a lookup begins: it is fresh when no mutation is in progress
BeginLookup(c, method, key) ==
    /\ c \in Lookups
    /\ CanCall(c)
    /\ opsLeft' = [opsLeft EXCEPT ![c] = @ - 1]
    /\ top' = [top EXCEPT ![c] = method]
    /\ tkey' = [tkey EXCEPT ![c] = key]
    /\ fresh' = [fresh EXCEPT ![c] = Quiet(Mutator)]
    /\ overlapped' = (overlapped \/ ~Quiet(Mutator))

\* a mutation begins: no lookup made so far is fresh any more
BeginMutation(method, key) ==
    /\ CanCall(Mutator)
    /\ opsLeft' = [opsLeft EXCEPT ![Mutator] = @ - 1]
    /\ top' = [top EXCEPT ![Mutator] = method]
    /\ tkey' = [tkey EXCEPT ![Mutator] = key]
    /\ fresh' = [c \in Lookups |-> FALSE]
    /\ overlapped' = (overlapped \/ \E c \in Lookups : ~Quiet(c))

\* getTenant: const cached = await redis.get(cacheKey); if (cached) return
GetTenantGet(c) ==
    IF CacheGet(cacheTenant) # <<>>
    THEN /\ tresult' = [tresult EXCEPT ![c] = CacheGet(cacheTenant)]
         /\ tpc' = [tpc EXCEPT ![c] = "returned"]
    ELSE /\ tresult' = [tresult EXCEPT ![c] = <<>>]
         /\ tpc' = [tpc EXCEPT ![c] = "getTenantFind"]

\* getTenant(tenantId) and listApiKeys(tenantId) called: the cache read
GetTenantCall(c) ==
    /\ \E method \in {"getTenant", "listApiKeys"} : BeginLookup(c, method, 0)
    /\ GetTenantGet(c)
    /\ UNCHANGED <<redisVars, rateVars, dataVars, chatVars, clockVars, unitVars, tenantDoc, cacheTenant, cacheApiKey, issued>>

\* getTenant reached from getTenantByApiKey, updateTenant or changePlan
GetTenantNested(c) ==
    /\ tpc[c] = "getTenantGet"
    /\ GetTenantGet(c)
    /\ UNCHANGED <<redisVars, rateVars, dataVars, chatVars, clockVars, unitVars, tenantDoc, cacheTenant, cacheApiKey, issued,
                   top, tkey, fresh, overlapped, opsLeft>>

\* getTenant: await this.collection.findOne({ tenantId, status: 'active' })
GetTenantFind(c) ==
    /\ tpc[c] = "getTenantFind"
    /\ IF Active(tenantDoc)
       THEN /\ tresult' = [tresult EXCEPT ![c] = <<tenantDoc>>]
            /\ tpc' = [tpc EXCEPT ![c] = "getTenantSet"]
       ELSE /\ tresult' = [tresult EXCEPT ![c] = <<>>]
            /\ tpc' = [tpc EXCEPT ![c] = "threw"]
    /\ UNCHANGED <<redisVars, rateVars, dataVars, chatVars, clockVars, unitVars, tenantDoc, cacheTenant, cacheApiKey, issued,
                   top, tkey, fresh, overlapped, opsLeft>>

\* getTenant: await redis.set(cacheKey, JSON.stringify(tenant), CACHE_TTL.tenant)
GetTenantSet(c) ==
    /\ tpc[c] = "getTenantSet"
    /\ cacheTenant' = CacheSet(cacheTenant, tresult[c])
    /\ tpc' = [tpc EXCEPT ![c] = "returned"]
    /\ UNCHANGED <<redisVars, rateVars, dataVars, chatVars, clockVars, unitVars, tenantDoc, cacheApiKey, issued,
                   top, tkey, tresult, fresh, overlapped, opsLeft>>

\* getTenantByApiKey(apiKey) called: await redis.get(`apikey:${keyHash}`)
ApiKeyCall(c) ==
    /\ \E k \in ApiKeys :
        /\ BeginLookup(c, "getTenantByApiKey", k)
        /\ tpc' = [tpc EXCEPT ![c] =
                      IF isConnected /\ hashApiKey(k) \in cacheApiKey
                      THEN "getTenantGet" ELSE "apiKeyFind"]
    /\ tresult' = [tresult EXCEPT ![c] = <<>>]
    /\ UNCHANGED <<redisVars, rateVars, dataVars, chatVars, clockVars, unitVars, tenantDoc, cacheTenant, cacheApiKey, issued>>

\* getTenantByApiKey: findOne({ 'apiKeys.keyHash': keyHash, status: 'active' })
ApiKeyFind(c) ==
    /\ tpc[c] = "apiKeyFind"
    /\ IF HasKey(tenantDoc, hashApiKey(tkey[c]))
       THEN /\ tresult' = [tresult EXCEPT ![c] =
                              <<Projection(tenantDoc, hashApiKey(tkey[c]))>>]
            /\ tpc' = [tpc EXCEPT ![c] = "apiKeyTouch"]
       ELSE /\ tresult' = [tresult EXCEPT ![c] = <<>>]
            /\ tpc' = [tpc EXCEPT ![c] = "threw"]
    /\ UNCHANGED <<redisVars, rateVars, dataVars, chatVars, clockVars, unitVars, tenantDoc, cacheTenant, cacheApiKey, issued,
                   top, tkey, fresh, overlapped, opsLeft>>

\* getTenantByApiKey: updateOne({ tenantId, 'apiKeys.keyHash': keyHash },
\*                              { $set: { 'apiKeys.$.lastUsed': new Date() } })
ApiKeyTouch(c) ==
    /\ tpc[c] = "apiKeyTouch"
    /\ tenantDoc' = IF hashApiKey(tkey[c]) \in tenantDoc.apiKeys
                    THEN [tenantDoc EXCEPT !.lastUsed = @ \cup {hashApiKey(tkey[c])}]
                    ELSE tenantDoc
    /\ tpc' = [tpc EXCEPT ![c] = "apiKeySet"]
    /\ UNCHANGED <<redisVars, rateVars, dataVars, chatVars, clockVars, unitVars, cacheTenant, cacheApiKey, issued,
                   top, tkey, tresult, fresh, overlapped, opsLeft>>

\* getTenantByApiKey: await redis.set(cacheKey, tenant.tenantId, CACHE_TTL.apiKey)
ApiKeySet(c) ==
    /\ tpc[c] = "apiKeySet"
    /\ cacheApiKey' = IF isConnected THEN cacheApiKey \cup {hashApiKey(tkey[c])}
                      ELSE cacheApiKey
    /\ tpc' = [tpc EXCEPT ![c] = "returned"]
    /\ UNCHANGED <<redisVars, rateVars, dataVars, chatVars, clockVars, unitVars, tenantDoc, cacheTenant, issued,
                   top, tkey, tresult, fresh, overlapped, opsLeft>>

\* updateTenant(tenantId, updates) called: updateOne({ tenantId, status: 'active' },
\* { $set: updates }); throws when matchedCount === 0
UpdateTenantCall ==
    /\ BeginMutation("updateTenant", 0)
    /\ \E name \in BusinessNames :
        tenantDoc' = IF Active(tenantDoc)
                     THEN [tenantDoc EXCEPT !.businessName = name] ELSE tenantDoc
    /\ tpc' = [tpc EXCEPT ![Mutator] = IF Active(tenantDoc) THEN "tenantDel" ELSE "threw"]
    /\ tresult' = [tresult EXCEPT ![Mutator] = <<>>]
    /\ UNCHANGED <<redisVars, rateVars, dataVars, chatVars, clockVars, unitVars, cacheTenant, cacheApiKey, issued>>

\* changePlan(tenantId, newPlan) called: updateOne({ tenantId, status: 'active' },
\* { $set: { plan: newPlan, limits: planConfig.limits } })
ChangePlanCall ==
    /\ BeginMutation("changePlan", 0)
    /\ \E newPlan \in Plans :
        tenantDoc' = IF Active(tenantDoc)
                     THEN [tenantDoc EXCEPT !.plan = newPlan, !.limits = PlanLimits(newPlan)]
                     ELSE tenantDoc
    /\ tpc' = [tpc EXCEPT ![Mutator] = "tenantDel"]
    /\ tresult' = [tresult EXCEPT ![Mutator] = <<>>]
    /\ UNCHANGED <<redisVars, rateVars, dataVars, chatVars, clockVars, unitVars, cacheTenant, cacheApiKey, issued>>

\* updateTenant, changePlan: await redis.del(`tenant:${tenantId}`), then
\* return await this.getTenant(tenantId)
TenantDelThenGet ==
    /\ tpc[Mutator] = "tenantDel"
    /\ cacheTenant' = CacheDel(cacheTenant)
    /\ tpc' = [tpc EXCEPT ![Mutator] = "getTenantGet"]
    /\ UNCHANGED <<redisVars, rateVars, dataVars, chatVars, clockVars, unitVars, tenantDoc, cacheApiKey, issued,
                   top, tkey, tresult, fresh, overlapped, opsLeft>>

\* createApiKey(tenantId, name): generateId.apiKey() is a key never generated
\* before; updateOne({ tenantId, status: 'active' }, { $push: { apiKeys } })
CreateApiKeyCall ==
    /\ issued # ApiKeys
    /\ LET k == CHOOSE x \in ApiKeys \ issued : \A y \in ApiKeys \ issued : x <= y
       IN /\ BeginMutation("createApiKey", k)
          /\ issued' = issued \cup {k}
          /\ tenantDoc' = IF Active(tenantDoc)
                          THEN [tenantDoc EXCEPT !.apiKeys = @ \cup {hashApiKey(k)}]
                          ELSE tenantDoc
    /\ tpc' = [tpc EXCEPT ![Mutator] = "returned"]
    /\ tresult' = [tresult EXCEPT ![Mutator] = <<>>]
    /\ UNCHANGED <<redisVars, rateVars, dataVars, chatVars, clockVars, unitVars, cacheTenant, cacheApiKey>>

\* revokeApiKey(tenantId, apiKey) called: updateOne({ tenantId, status: 'active' },
\* { $pull: { apiKeys: { keyHash } } })
RevokeApiKeyCall ==
    /\ \E k \in issued :
        /\ BeginMutation("revokeApiKey", k)
        /\ tenantDoc' = IF Active(tenantDoc)
                        THEN [tenantDoc EXCEPT !.apiKeys = @ \ {hashApiKey(k)},
                                               !.lastUsed = @ \ {hashApiKey(k)}]
                        ELSE tenantDoc
    /\ tpc' = [tpc EXCEPT ![Mutator] = "revokeDel"]
    /\ tresult' = [tresult EXCEPT ![Mutator] = <<>>]
    /\ UNCHANGED <<redisVars, rateVars, dataVars, chatVars, clockVars, unitVars, cacheTenant, cacheApiKey, issued>>

\* revokeApiKey: await redis.del(`apikey:${keyHash}`)
RevokeApiKeyDel ==
    /\ tpc[Mutator] = "revokeDel"
    /\ cacheApiKey' = IF isConnected THEN cacheApiKey \ {hashApiKey(tkey[Mutator])}
                      ELSE cacheApiKey
    /\ tpc' = [tpc EXCEPT ![Mutator] = "returned"]
    /\ UNCHANGED <<redisVars, rateVars, dataVars, chatVars, clockVars, unitVars, tenantDoc, cacheTenant, issued,
                   top, tkey, tresult, fresh, overlapped, opsLeft>>

\* deleteTenant(tenantId) called: updateOne({ tenantId }, { $set: { status: 'deleted' } })
DeleteTenantCall ==
    /\ BeginMutation("deleteTenant", 0)
    /\ tenantDoc' = [tenantDoc EXCEPT !.status = "deleted"]
    /\ tpc' = [tpc EXCEPT ![Mutator] = "deleteDel"]
    /\ tresult' = [tresult EXCEPT ![Mutator] = <<>>]
    /\ UNCHANGED <<redisVars, rateVars, dataVars, chatVars, clockVars, unitVars, cacheTenant, cacheApiKey, issued>>

\* deleteTenant: await redis.del(`tenant:${tenantId}`)
DeleteTenantDel ==
    /\ tpc[Mutator] = "deleteDel"
    /\ cacheTenant' = CacheDel(cacheTenant)
    /\ tpc' = [tpc EXCEPT ![Mutator] = "returned"]
    /\ UNCHANGED <<redisVars, rateVars, dataVars, chatVars, clockVars, unitVars, tenantDoc, cacheApiKey, issued,
                   top, tkey, tresult, fresh, overlapped, opsLeft>>

\* the TTL of a cache entry runs out (CACHE_TTL.tenant, CACHE_TTL.apiKey)
CacheExpire ==
    /\ \/ cacheTenant # <<>> /\ cacheTenant' = <<>> /\ cacheApiKey' = cacheApiKey
       \/ \E h \in cacheApiKey : cacheApiKey' = cacheApiKey \ {h} /\ cacheTenant' = cacheTenant
    /\ UNCHANGED <<redisVars, rateVars, dataVars, chatVars, clockVars, unitVars, tenantDoc, issued,
                   tpc, top, tkey, tresult, fresh, overlapped, opsLeft>>

TenantNext ==
    \/ RedisDisconnect
    \/ RedisReconnect
    \/ CacheExpire
    \/ UpdateTenantCall
    \/ ChangePlanCall
    \/ TenantDelThenGet
    \/ CreateApiKeyCall
    \/ RevokeApiKeyCall
    \/ RevokeApiKeyDel
    \/ DeleteTenantCall
    \/ DeleteTenantDel
    \/ \E c \in Calls :
        \/ GetTenantCall(c)
        \/ GetTenantNested(c)
        \/ GetTenantFind(c)
        \/ GetTenantSet(c)
        \/ ApiKeyCall(c)
        \/ ApiKeyFind(c)
        \/ ApiKeyTouch(c)
        \/ ApiKeySet(c)

----------------------------------------------------------------------------
\* Strings are sequences of one-character strings.  The alphabet of the
\* model is a few letters in both cases, the space (the only whitespace) and
\* the dot (the only character that is special in a regular expression).

LowerOf == [A |-> "a", B |-> "b", C |-> "c"]

\* /\s/
IsSpace(ch) == ch = " "

\* String.prototype.toLowerCase
ToLowerCase(s) == [i \in 1..Len(s) |-> IF s[i] \in DOMAIN LowerOf THEN LowerOf[s[i]] ELSE s[i]]

\* String.prototype.trim
RECURSIVE Trim(_)
Trim(s) ==
    IF s = <<>> THEN s
    ELSE IF IsSpace(Head(s)) THEN Trim(Tail(s))
    ELSE IF IsSpace(s[Len(s)]) THEN Trim(SubSeq(s, 1, Len(s) - 1))
    ELSE s

\* String.prototype.split(/\s+/): the pieces between the maximal runs of
\* whitespace; a leading or trailing run leaves an empty piece
RECURSIVE Split(_)
Split(s) ==
    IF \A i \in 1..Len(s) : ~IsSpace(s[i]) THEN <<s>>
    ELSE LET i == CHOOSE x \in 1..Len(s) :
                    IsSpace(s[x]) /\ \A y \in 1..(x - 1) : ~IsSpace(s[y])
             j == CHOOSE x \in i..Len(s) :
                    /\ \A y \in i..x : IsSpace(s[y])
                    /\ x = Len(s) \/ ~IsSpace(s[x + 1])
         IN <<SubSeq(s, 1, i - 1)>> \o Split(SubSeq(s, j + 1, Len(s)))

\* Array.prototype.join(' ')
RECURSIVE JoinSpace(_)
JoinSpace(words) ==
    IF words = <<>> THEN <<>>
    ELSE IF Len(words) = 1 THEN words[1]
    ELSE words[1] \o <<" ">> \o JoinSpace(Tail(words))

\* the plain word occurs somewhere in s: what a regular expression made of
\* the escaped word matches
Includes(s, word) ==
    \E i \in 0..(Len(s) - Len(word)) : SubSeq(s, i + 1, i + Len(word)) = word

\* the regular expression made of the characters of `pattern` as they are
\* (not escaped) matches s at position i: "." stands for any character, every
\* other character of the alphabet for itself
RegexAt(s, pattern, i) ==
    /\ i + Len(pattern) - 1 <= Len(s)
    /\ \A j \in 1..Len(pattern) : pattern[j] = "." \/ pattern[j] = s[i + j - 1]

\* { $regex: pattern }: the pattern matches somewhere in s
RegexTest(s, pattern) == \E i \in 1..(Len(s) + 1) : RegexAt(s, pattern, i)

\* (s.match(new RegExp(pattern, 'g')) || []).length for a non-empty pattern:
\* the matches found from left to right, each search resuming after the
\* previous match
RECURSIVE MatchCountFrom(_, _, _)
MatchCountFrom(s, pattern, i) ==
    IF i + Len(pattern) - 1 > Len(s) THEN 0
    ELSE IF RegexAt(s, pattern, i)
         THEN 1 + MatchCountFrom(s, pattern, i + Len(pattern))
         ELSE MatchCountFrom(s, pattern, i + 1)
MatchCount(s, pattern) == MatchCountFrom(s, pattern, 1)

\* CHUNK_CONFIG.minSize, in characters
MinSize == 100

\* the loop's increment with the overlap forgotten
StrideWithoutOverlap(chunkSize, overlap) == chunkSize

\* i += chunkSize - overlap
Stride(chunkSize, overlap) == chunkSize - overlap

\* chunkText(text, chunkSize, overlap): the loop from word index i (0-based)
RECURSIVE ChunkFrom(_, _, _, _)
ChunkFrom(words, i, chunkSize, overlap) ==
    IF i >= Len(words) THEN <<>>
    ELSE LET chunk == JoinSpace(SubSeq(words, i + 1, Min(i + chunkSize, Len(words))))
         IN (IF Len(Trim(chunk)) > 0 THEN <<Trim(chunk)>> ELSE <<>>)
            \o ChunkFrom(words, i + Stride(chunkSize, overlap), chunkSize, overlap)

\* chunkText(text, chunkSize, overlap)
chunkText(text, chunkSize, overlap) == ChunkFrom(Split(text), 0, chunkSize, overlap)

\* the turns of the loop of chunkText from word index i (0-based)
RECURSIVE LoopTurnsFrom(_, _, _, _)
LoopTurnsFrom(words, i, chunkSize, overlap) ==
    IF i >= Len(words) THEN 0
    ELSE 1 + LoopTurnsFrom(words, i + Stride(chunkSize, overlap), chunkSize, overlap)

----------------------------------------------------------------------------
\* The section store (services/data.service.js) and the retrieval engine
\* (services/vector-search.service.js).  Documents carry the fields the
\* services read back; metadata, the timestamps and the embedding vector
\* (a pure function of the chunk text that no service code reads) are left
\* out.

\* concurrent callers of DataService / VectorSearchService, one call each
NumWorkers == 2
\* the workers 1..NumSearchers may call search, the others only DataService
NumSearchers == 1
\* registerData batches hold 1..MaxBatch sections
MaxBatch == 2
\* CHUNK_CONFIG.size and CHUNK_CONFIG.overlap, scaled down to a few words
ChunkSize == 2
ChunkOverlap == 1
\* limits.sectionsPerTenant, scaled down
SectionsPerTenant == 2
\* options.limit ranges over 1..MaxLimit
MaxLimit == 2

\* VECTOR_SEARCH.similarityThreshold, in hundredths
SimilarityThreshold == 70
\* keywords are the query words with length > MinKeywordLength
MinKeywordLength == 2
\* the keyword tier's score per match, cap and threshold, in hundredths
KeywordWeight == 15
ScoreCap == 100
MinRelevance == 10

Workers == 1..NumWorkers
Searchers == 1..Min(NumSearchers, NumWorkers)
Tenants == {"t1", "t2"}

Abc == <<"a", "b", "c">>
Bca == <<"b", "c", "a">>
Cab == <<"c", "a", "b">>
Blank == <<" ", " ">>

\* the sections submitted to registerData
FaqSection    == [type |-> "faq", title |-> <<"A", "b", "c">>,
                  content |-> JoinSpace(<<Abc, Bca, Cab>>)]
PolicySection == [type |-> "policy", title |-> Cab, content |-> <<"C", "a", "b">>]
BlankSection  == [type |-> "faq", title |-> Abc, content |-> Blank]
SectionInputs == {FaqSection, PolicySection, BlankSection}
Batches == UNION {[1..n -> SectionInputs] : n \in 1..MaxBatch}

\* the updates submitted to updateSection; <<>> is an absent (falsy) field
NoUpdates == [title |-> <<>>, content |-> <<>>]
Updates == {[title |-> Bca, content |-> <<>>],
            [title |-> <<>>, content |-> Cab],
            [title |-> <<>>, content |-> Blank]}

\* the queries submitted to search: two keywords, one keyword, no keyword,
\* one keyword with a character that is special in a regular expression
Queries == {<<"A", "b", "c", " ", "c", "a", "b">>, Cab, <<"a", "b">>, <<"a", ".", "c">>}
Limits == 1..MaxLimit
\* options.sectionType; "" is the absent (falsy) value
SectionTypes == {"", "faq"}

NoArg == [sectionId |-> 0, sections |-> <<>>, updates |-> NoUpdates,
          queryText |-> <<>>, limit |-> 0, sectionType |-> ""]
NoLocal == [k |-> 0, sectionId |-> 0, chunks |-> <<>>, section |-> <<>>,
            results |-> <<>>, totalChunks |-> 0, chunksDeleted |-> 0,
            consulted |-> <<>>]
NoResult == [error |-> "none"]

\* the filter { tenantId, sectionId } with the tenantId test left out
SectionFilterAnyTenant(doc, tenantId, sectionId) == doc.sectionId = sectionId

\* the filter { tenantId, sectionId }
SectionFilter(doc, tenantId, sectionId) ==
    doc.tenantId = tenantId /\ doc.sectionId = sectionId

\* the filter { tenantId } with sectionType added when it is given
MatchFilter(row, tenantId, sectionType) ==
    /\ row.tenantId = tenantId
    /\ sectionType # "" => row.sectionType = sectionType

\* sectionDoc of registerData
SectionDoc(tenantId, sectionId, section, chunkCount) ==
    [tenantId |-> tenantId, sectionId |-> sectionId, type |-> section.type,
     title |-> section.title, content |-> section.content,
     chunkCount |-> chunkCount, status |-> "completed"]

\* chunkDocs of registerData and updateSection; the chunk ids are firstId,
\* firstId + 1, ...
ChunkDocs(tenantId, sectionId, sectionType, sectionTitle, texts, firstId) ==
    [i \in 1..Len(texts) |->
        [tenantId |-> tenantId, sectionId |-> sectionId, chunkId |-> firstId + i - 1,
         sectionType |-> sectionType, sectionTitle |-> sectionTitle,
         text |-> texts[i], position |-> i - 1]]

\* sectionsCollection.findOne({ tenantId, sectionId }): <<>> or <<document>>
FindSection(tenantId, sectionId) ==
    LET found == {doc \in sections : SectionFilter(doc, tenantId, sectionId)}
    IN IF found = {} THEN <<>> ELSE <<CHOOSE doc \in found : TRUE>>

\* chunksCollection.deleteMany({ tenantId, sectionId }): the rows that stay
DeleteChunks(tenantId, sectionId) ==
    SelectSeq(chunks, LAMBDA row : ~SectionFilter(row, tenantId, sectionId))

\* sectionsCollection.updateOne({ tenantId, sectionId }, { $set: ... }) with
\* the fields of updateDoc: content and chunkCount when content is given,
\* title when title is given
UpdateOne(tenantId, sectionId, title, content, chunkCount) ==
    {IF SectionFilter(doc, tenantId, sectionId)
     THEN [doc EXCEPT !.title = IF title # <<>> THEN title ELSE @,
                      !.content = IF content # <<>> THEN content ELSE @,
                      !.chunkCount = IF content # <<>> THEN chunkCount ELSE @]
     ELSE doc : doc \in sections}

\* the store after registerData(tenantId, [section]) ran alone on it
EmptyStore == [sections |-> {}, chunks |-> <<>>, owner |-> <<>>, nextChunk |-> 1]
Stored(store, tenantId, section) ==
    LET sectionId == Len(store.owner) + 1
        texts == chunkText(section.content, ChunkSize, ChunkOverlap)
    IN [sections  |-> store.sections
                        \cup {SectionDoc(tenantId, sectionId, section, Len(texts))},
        chunks    |-> store.chunks
                        \o ChunkDocs(tenantId, sectionId, section.type, section.title,
                                     texts, store.nextChunk),
        owner     |-> Append(store.owner, tenantId),
        nextChunk |-> store.nextChunk + Len(texts)]
SeededStore == Stored(Stored(EmptyStore, "t1", FaqSection), "t2", PolicySection)

\* return value / throw error, out of the method
Return(w, value) ==
    /\ dpc' = [dpc EXCEPT ![w] = "returned"]
    /\ dresult' = [dresult EXCEPT ![w] = value]
Throw(w, message) ==
    /\ dpc' = [dpc EXCEPT ![w] = "threw"]
    /\ dresult' = [dresult EXCEPT ![w] = [error |-> message]]

\* a method is called
BeginCall(w, method, tenantId, arg) ==
    /\ dpc[w] = "idle"
    /\ dop' = [dop EXCEPT ![w] = method]
    /\ dtenant' = [dtenant EXCEPT ![w] = tenantId]
    /\ darg' = [darg EXCEPT ![w] = arg]

\* the section ids a caller may name: those generated so far, and 0 for an
\* id that was never generated
KnownSectionIds == 0..Len(owner)

\* ---- DataService.registerData ----

\* one turn of the loop over the batch, from its k-th section up to the
\* await of insertOne (generateEmbeddings cannot fail and touches no state)
RegisterSection(w, tenantId, batch, k, results, totalChunks) ==
    LET base == [NoLocal EXCEPT !.k = k, !.results = results,
                                !.totalChunks = totalChunks]
    IN IF k > Len(batch)
       THEN /\ Return(w, [sectionsCreated |-> Len(batch), chunksCreated |-> totalChunks,
                          sections |-> results])
            /\ dlocal' = [dlocal EXCEPT ![w] = base]
            /\ owner' = owner
       ELSE IF batch[k].content = <<>> \/ Len(Trim(batch[k].content)) = 0
       THEN /\ Throw(w, "Section has empty content")
            /\ dlocal' = [dlocal EXCEPT ![w] = base]
            /\ owner' = owner
       ELSE LET sectionId == Len(owner) + 1
                texts == chunkText(batch[k].content, ChunkSize, ChunkOverlap)
            IN /\ owner' = Append(owner, tenantId)
               /\ IF Len(texts) = 0
                  THEN /\ Throw(w, "Section produced no chunks")
                       /\ dlocal' = [dlocal EXCEPT ![w] = [base EXCEPT !.sectionId = sectionId]]
                  ELSE /\ dpc' = [dpc EXCEPT ![w] = "registerInsertSection"]
                       /\ dresult' = dresult
                       /\ dlocal' = [dlocal EXCEPT ![w] =
                                        [base EXCEPT !.sectionId = sectionId,
                                                     !.chunks = texts]]

\* the section limit test with > turned into >=
OverSectionLimitOffByOne(currentCount, added) == currentCount + added >= SectionsPerTenant

\* currentCount + sections.length > limits.sectionsPerTenant
OverSectionLimit(currentCount, added) == currentCount + added > SectionsPerTenant

RegisterDataCall(w, tenantId, batch) ==
    /\ BeginCall(w, "registerData", tenantId, [NoArg EXCEPT !.sections = batch])
    /\ LET currentCount == Cardinality({doc \in sections : doc.tenantId = tenantId})
       IN IF OverSectionLimit(currentCount, Len(batch))
          THEN /\ Throw(w, "Section limit exceeded")
               /\ UNCHANGED <<dlocal, owner>>
          ELSE RegisterSection(w, tenantId, batch, 1, <<>>, 0)
    /\ UNCHANGED <<sections, chunks, nextChunk>>
    /\ UNCHANGED <<redisVars, rateVars, tenantVars, chatVars, clockVars, unitVars>>

RegisterInsertSection(w) ==
    /\ dpc[w] = "registerInsertSection"
    /\ sections' = sections \cup
            {SectionDoc(dtenant[w], dlocal[w].sectionId,
                        darg[w].sections[dlocal[w].k], Len(dlocal[w].chunks))}
    /\ dpc' = [dpc EXCEPT ![w] = "registerInsertChunks"]
    /\ UNCHANGED <<chunks, owner, nextChunk, dop, dtenant, darg, dlocal, dresult>>
    /\ UNCHANGED <<redisVars, rateVars, tenantVars, chatVars, clockVars, unitVars>>

RegisterInsertChunks(w) ==
    /\ dpc[w] = "registerInsertChunks"
    /\ LET section == darg[w].sections[dlocal[w].k]
           texts == dlocal[w].chunks
       IN /\ chunks' = chunks \o ChunkDocs(dtenant[w], dlocal[w].sectionId, section.type,
                                          section.title, texts, nextChunk)
          /\ nextChunk' = nextChunk + Len(texts)
          /\ RegisterSection(w, dtenant[w], darg[w].sections, dlocal[w].k + 1,
                             Append(dlocal[w].results,
                                    [sectionId |-> dlocal[w].sectionId,
                                     type |-> section.type, title |-> section.title,
                                     chunkCount |-> Len(texts), status |-> "completed"]),
                             dlocal[w].totalChunks + Len(texts))
    /\ UNCHANGED <<sections, dop, dtenant, darg>>
    /\ UNCHANGED <<redisVars, rateVars, tenantVars, chatVars, clockVars, unitVars>>

\* ---- DataService.getSection ----

GetSectionCall(w, tenantId, sectionId) ==
    /\ BeginCall(w, "getSection", tenantId, [NoArg EXCEPT !.sectionId = sectionId])
    /\ LET section == FindSection(tenantId, sectionId)
       IN IF section = <<>> THEN Throw(w, "Section not found")
                            ELSE Return(w, section[1])
    /\ UNCHANGED <<sections, chunks, owner, nextChunk, dlocal>>
    /\ UNCHANGED <<redisVars, rateVars, tenantVars, chatVars, clockVars, unitVars>>

\* ---- DataService.updateSection ----

UpdateSectionCall(w, tenantId, sectionId, updates) ==
    /\ BeginCall(w, "updateSection", tenantId,
                 [NoArg EXCEPT !.sectionId = sectionId, !.updates = updates])
    /\ IF updates.content # <<>>
       THEN IF Len(Trim(updates.content)) = 0
            THEN /\ Throw(w, "Content cannot be empty")
                 /\ UNCHANGED <<sections, chunks, dlocal>>
            ELSE LET texts == chunkText(updates.content, ChunkSize, ChunkOverlap)
                 IN /\ chunks' = DeleteChunks(tenantId, sectionId)
                    /\ sections' = sections
                    /\ IF Len(texts) = 0
                       THEN /\ Throw(w, "Content is too short")
                            /\ dlocal' = dlocal
                       ELSE /\ dpc' = [dpc EXCEPT ![w] = "updateGetSection"]
                            /\ dresult' = dresult
                            /\ dlocal' = [dlocal EXCEPT ![w] = [NoLocal EXCEPT !.chunks = texts]]
       ELSE /\ sections' = UpdateOne(tenantId, sectionId, updates.title, <<>>, 0)
            /\ dpc' = [dpc EXCEPT ![w] = "updateReturn"]
            /\ UNCHANGED <<chunks, dlocal, dresult>>
    /\ UNCHANGED <<owner, nextChunk>>
    /\ UNCHANGED <<redisVars, rateVars, tenantVars, chatVars, clockVars, unitVars>>

UpdateGetSection(w) ==
    /\ dpc[w] = "updateGetSection"
    /\ LET section == FindSection(dtenant[w], darg[w].sectionId)
       IN IF section = <<>>
          THEN /\ Throw(w, "Section not found")
               /\ dlocal' = [dlocal EXCEPT ![w] = NoLocal]
          ELSE /\ dpc' = [dpc EXCEPT ![w] = "updateInsertChunks"]
               /\ dlocal' = [dlocal EXCEPT ![w].section = section]
               /\ dresult' = dresult
    /\ UNCHANGED <<sections, chunks, owner, nextChunk, dop, dtenant, darg>>
    /\ UNCHANGED <<redisVars, rateVars, tenantVars, chatVars, clockVars, unitVars>>

UpdateInsertChunks(w) ==
    /\ dpc[w] = "updateInsertChunks"
    /\ LET section == dlocal[w].section[1]
           title == darg[w].updates.title
           texts == dlocal[w].chunks
       IN /\ chunks' = chunks \o ChunkDocs(dtenant[w], darg[w].sectionId, section.type,
                                          IF title # <<>> THEN title ELSE section.title,
                                          texts, nextChunk)
          /\ nextChunk' = nextChunk + Len(texts)
    /\ dpc' = [dpc EXCEPT ![w] = "updateSetSection"]
    /\ UNCHANGED <<sections, owner, dop, dtenant, darg, dlocal, dresult>>
    /\ UNCHANGED <<redisVars, rateVars, tenantVars, chatVars, clockVars, unitVars>>

UpdateSetSection(w) ==
    /\ dpc[w] = "updateSetSection"
    /\ sections' = UpdateOne(dtenant[w], darg[w].sectionId, darg[w].updates.title,
                             darg[w].updates.content, Len(dlocal[w].chunks))
    /\ dpc' = [dpc EXCEPT ![w] = "updateReturn"]
    /\ dlocal' = [dlocal EXCEPT ![w] = NoLocal]
    /\ UNCHANGED <<chunks, owner, nextChunk, dop, dtenant, darg, dresult>>
    /\ UNCHANGED <<redisVars, rateVars, tenantVars, chatVars, clockVars, unitVars>>

UpdateReturn(w) ==
    /\ dpc[w] = "updateReturn"
    /\ LET section == FindSection(dtenant[w], darg[w].sectionId)
       IN IF section = <<>> THEN Throw(w, "Section not found")
                            ELSE Return(w, section[1])
    /\ UNCHANGED <<sections, chunks, owner, nextChunk, dop, dtenant, darg, dlocal>>
    /\ UNCHANGED <<redisVars, rateVars, tenantVars, chatVars, clockVars, unitVars>>

\* ---- DataService.deleteSection ----

DeleteSectionCall(w, tenantId, sectionId) ==
    /\ BeginCall(w, "deleteSection", tenantId, [NoArg EXCEPT !.sectionId = sectionId])
    /\ chunks' = DeleteChunks(tenantId, sectionId)
    /\ dlocal' = [dlocal EXCEPT ![w] =
                    [NoLocal EXCEPT !.chunksDeleted = Len(chunks) - Len(chunks')]]
    /\ dpc' = [dpc EXCEPT ![w] = "deleteSectionDoc"]
    /\ UNCHANGED <<sections, owner, nextChunk, dresult>>
    /\ UNCHANGED <<redisVars, rateVars, tenantVars, chatVars, clockVars, unitVars>>

DeleteSectionDoc(w) ==
    /\ dpc[w] = "deleteSectionDoc"
    /\ LET found == FindSection(dtenant[w], darg[w].sectionId)
       IN /\ sections' = IF found = <<>> THEN sections ELSE sections \ {found[1]}
          /\ IF found = <<>>
             THEN Throw(w, "Section not found")
             ELSE Return(w, [sectionId |-> darg[w].sectionId,
                             chunksDeleted |-> dlocal[w].chunksDeleted])
    /\ dlocal' = [dlocal EXCEPT ![w] = NoLocal]
    /\ UNCHANGED <<chunks, owner, nextChunk, dop, dtenant, darg>>
    /\ UNCHANGED <<redisVars, rateVars, tenantVars, chatVars, clockVars, unitVars>>

\* ---- a store call of DataService is rejected ----

\* the positions at which a DataService method awaits the document store
StoreCalls == {"registerInsertSection", "registerInsertChunks", "updateGetSection",
               "updateInsertChunks", "updateSetSection", "updateReturn",
               "deleteSectionDoc"}

\* the awaited store call rejects: the catch block logs and rethrows
StoreError(w) ==
    /\ dpc[w] \in StoreCalls
    /\ Throw(w, "Store error")
    /\ UNCHANGED <<sections, chunks, owner, nextChunk, dop, dtenant, darg, dlocal>>
    /\ UNCHANGED <<redisVars, rateVars, tenantVars, chatVars, clockVars, unitVars>>

\* ---- VectorSearchService.search / fallbackTextSearch ----

\* the $project stage / .project() of the three queries, with the score
Passage(row, score) ==
    [chunkId |-> row.chunkId, sectionId |-> row.sectionId,
     sectionType |-> row.sectionType, sectionTitle |-> row.sectionTitle,
     text |-> row.text, score |-> score]

\* the scores the two indexes may report, in hundredths: vectorSearchScore
\* after the $match on minScore, and textScore (not bounded by 1)
VectorScores == {SimilarityThreshold, 100}
TextScores == {75, 150}

\* Array.prototype.slice(0, n) / .limit(n)
Take(seq, n) == SubSeq(seq, 1, Min(n, Len(seq)))

\* The vector index and the text index are services of the database: what
\* they rank is not in this code.  An index query answers with up to
\* `limit` distinct rows that pass the filter, best score first.
IndexHits(tenantId, sectionType, limit, scores) ==
    LET rows == {chunks[i] : i \in {j \in 1..Len(chunks) :
                                      MatchFilter(chunks[j], tenantId, sectionType)}}
    IN UNION {
         {[i \in 1..n |-> Passage(pick[i], score[i])] :
             pick \in {f \in [1..n -> rows] :
                         \A i, j \in 1..n : i # j => f[i] # f[j]},
             score \in {g \in [1..n -> scores] :
                         \A i, j \in 1..n : i < j => g[i] >= g[j]}}
         : n \in 0..Min(limit, Cardinality(rows))}

\* results.length === 0 taken as never true
IsEmptyNever(results) == FALSE

\* results.length === 0
IsEmpty(results) == Len(results) = 0

\* keywords of fallbackTextSearch
Keywords(queryText) ==
    SelectSeq(Split(ToLowerCase(queryText)), LAMBDA k : Len(k) > MinKeywordLength)

\* { $regex: regexPattern, $options: 'i' }: one lookahead per keyword
MatchesAll(s, keywords) ==
    \A i \in 1..Len(keywords) : Includes(ToLowerCase(s), keywords[i])

\* the filter of the regex query: the tenant filter and the $or of the three
\* kinds of branches
KeywordFilter(row, tenantId, sectionType, keywords) ==
    /\ MatchFilter(row, tenantId, sectionType)
    /\ \/ MatchesAll(row.text, keywords)
       \/ MatchesAll(row.sectionTitle, keywords)
       \/ \E i \in 1..Len(keywords) : RegexTest(ToLowerCase(row.text), keywords[i])

\* the score of scoredResults, in hundredths
RECURSIVE KeywordMatches(_, _)
KeywordMatches(textLower, keywords) ==
    IF keywords = <<>> THEN 0
    ELSE MatchCount(textLower, Head(keywords)) + KeywordMatches(textLower, Tail(keywords))
KeywordScore(row, keywords) ==
    Min(KeywordMatches(ToLowerCase(row.text \o <<" ">> \o row.sectionTitle), keywords)
            * KeywordWeight,
        ScoreCap)

\* Array.prototype.sort((a, b) => b.score - a.score): stable, best first
InsertByScore(sorted, r) ==
    LET n == Cardinality({i \in 1..Len(sorted) : sorted[i].score >= r.score})
    IN SubSeq(sorted, 1, n) \o <<r>> \o SubSeq(sorted, n + 1, Len(sorted))
RECURSIVE SortFrom(_, _)
SortFrom(rest, sorted) ==
    IF rest = <<>> THEN sorted
    ELSE SortFrom(Tail(rest), InsertByScore(sorted, Head(rest)))
SortByScore(rows) == SortFrom(rows, <<>>)

\* the test of the filter after the scoring, with every score passing
RelevantAlways(score) == TRUE

\* r.score > 0.1
Relevant(score) == score > MinRelevance

\* the regex query and the scoring, filtering, sorting and slicing after it
KeywordSearch(tenantId, queryText, limit, sectionType) ==
    LET keywords == Keywords(queryText)
        results == Take(SelectSeq(chunks, LAMBDA row :
                            KeywordFilter(row, tenantId, sectionType, keywords)),
                        limit * 2)
        scoredResults == [i \in 1..Len(results) |->
                            Passage(results[i], KeywordScore(results[i], keywords))]
    IN Take(SortByScore(SelectSeq(scoredResults, LAMBDA r : Relevant(r.score))), limit)

\* history: a tier was consulted, with what came of it
Consulted(w, tier, outcome, output) ==
    [dlocal EXCEPT ![w].consulted =
        Append(@, [tier |-> tier, outcome |-> outcome, output |-> output])]
OutcomeOf(results) == IF Len(results) = 0 THEN "empty" ELSE "hits"

SearchCall(w, tenantId, queryText, limit, sectionType) ==
    /\ w \in Searchers
    /\ BeginCall(w, "search", tenantId,
                 [NoArg EXCEPT !.queryText = queryText, !.limit = limit,
                               !.sectionType = sectionType])
    /\ dpc' = [dpc EXCEPT ![w] = "vectorSearch"]
    /\ UNCHANGED <<sections, chunks, owner, nextChunk, dlocal, dresult>>
    /\ UNCHANGED <<redisVars, rateVars, tenantVars, chatVars, clockVars, unitVars>>

SearchVector(w) ==
    /\ dpc[w] = "vectorSearch"
    /\ \/ \* the aggregate raises (no vector index, no connection)
          /\ dpc' = [dpc EXCEPT ![w] = "textSearch"]
          /\ dlocal' = Consulted(w, "vector", "raised", <<>>)
          /\ dresult' = dresult
       \/ \E results \in IndexHits(dtenant[w], darg[w].sectionType, darg[w].limit,
                                   VectorScores) :
            /\ dlocal' = Consulted(w, "vector", OutcomeOf(results), results)
            /\ IF IsEmpty(results)
               THEN /\ dpc' = [dpc EXCEPT ![w] = "textSearch"]
                    /\ dresult' = dresult
               ELSE Return(w, results)
    /\ UNCHANGED <<sections, chunks, owner, nextChunk, dop, dtenant, darg>>
    /\ UNCHANGED <<redisVars, rateVars, tenantVars, chatVars, clockVars, unitVars>>

SearchText(w) ==
    /\ dpc[w] = "textSearch"
    /\ \/ \* the $text query raises (no text index)
          /\ dpc' = [dpc EXCEPT ![w] = "keywordSearch"]
          /\ dlocal' = Consulted(w, "text", "raised", <<>>)
          /\ dresult' = dresult
       \/ \E results \in IndexHits(dtenant[w], darg[w].sectionType, darg[w].limit,
                                   TextScores) :
            /\ dlocal' = Consulted(w, "text", OutcomeOf(results), results)
            /\ IF Len(results) > 0
               THEN Return(w, results)
               ELSE /\ dpc' = [dpc EXCEPT ![w] = "keywordSearch"]
                    /\ dresult' = dresult
    /\ UNCHANGED <<sections, chunks, owner, nextChunk, dop, dtenant, darg>>
    /\ UNCHANGED <<redisVars, rateVars, tenantVars, chatVars, clockVars, unitVars>>

SearchKeyword(w) ==
    /\ dpc[w] = "keywordSearch"
    /\ \/ \* the regex query raises: the outer catch returns []
          /\ dlocal' = Consulted(w, "keyword", "raised", <<>>)
          /\ Return(w, <<>>)
       \/ LET sortedResults == KeywordSearch(dtenant[w], darg[w].queryText,
                                             darg[w].limit, darg[w].sectionType)
          IN /\ dlocal' = Consulted(w, "keyword", OutcomeOf(sortedResults), sortedResults)
             /\ Return(w, sortedResults)
    /\ UNCHANGED <<sections, chunks, owner, nextChunk, dop, dtenant, darg>>
    /\ UNCHANGED <<redisVars, rateVars, tenantVars, chatVars, clockVars, unitVars>>

SearchNext ==
    \E w \in Workers :
        \/ \E tenantId \in Tenants, queryText \in Queries, limit \in Limits,
              sectionType \in SectionTypes :
                SearchCall(w, tenantId, queryText, limit, sectionType)
        \/ SearchVector(w)
        \/ SearchText(w)
        \/ SearchKeyword(w)

DataNext ==
    \/ \E w \in Workers :
        \/ \E tenantId \in Tenants, batch \in Batches : RegisterDataCall(w, tenantId, batch)
        \/ RegisterInsertSection(w)
        \/ RegisterInsertChunks(w)
        \/ \E tenantId \in Tenants, sectionId \in KnownSectionIds :
                GetSectionCall(w, tenantId, sectionId)
        \/ \E tenantId \in Tenants, sectionId \in KnownSectionIds, updates \in Updates :
                UpdateSectionCall(w, tenantId, sectionId, updates)
        \/ UpdateGetSection(w)
        \/ UpdateInsertChunks(w)
        \/ UpdateSetSection(w)
        \/ UpdateReturn(w)
        \/ \E tenantId \in Tenants, sectionId \in KnownSectionIds :
                DeleteSectionCall(w, tenantId, sectionId)
        \/ DeleteSectionDoc(w)
        \/ StoreError(w)
    \/ SearchNext

----------------------------------------------------------------------------
\* The buckets over time.

\* the store removes a key whose time to live has run out
KeyExpires(key) ==
    /\ expiry[key] > 0
    /\ counters' = [counters EXCEPT ![key] = 0]
    /\ expiry' = [expiry EXCEPT ![key] = 0]
    /\ UNCHANGED <<redisVars, limits, rpc, minuteCount, hourCount, usageCount, reply>>
    /\ UNCHANGED <<tenantVars, dataVars, chatVars, clockVars, unitVars>>

\* the request is cut off (the process stops) after an increment, before
\* the expire that follows it
Abandon(r) ==
    /\ rpc[r] \in {"minuteExpire", "hourExpire", "monthExpire"}
    /\ rpc' = [rpc EXCEPT ![r] = "abandoned"]
    /\ UNCHANGED <<redisVars, limits, counters, expiry, minuteCount, hourCount,
                   usageCount, reply>>
    /\ UNCHANGED <<tenantVars, dataVars, chatVars, clockVars, unitVars>>

\* the next step of request r's preHandlers
RequestStep(r) ==
    \/ RateLimiterIncrMinute(r)
    \/ RateLimiterExpireMinute(r)
    \/ RateLimiterIncrHour(r)
    \/ RateLimiterExpireHour(r)
    \/ CheckMonthlyLimitGet(r)
    \/ CheckMonthlyLimitIncr(r)
    \/ CheckMonthlyLimitExpire(r)

BucketNext ==
    \/ RedisDisconnect
    \/ RedisReconnect
    \/ \E key \in CounterKeys : KeyExpires(key)
    \/ \E r \in Requests :
        \/ RequestStep(r)
        \/ Abandon(r)

----------------------------------------------------------------------------
\* chunkText called on its own, over every short text of letters and spaces
\* and every window size and overlap with chunkSize > overlap >= 0.

\* the texts have at most MaxTextLen characters
MaxTextLen == 5
\* chunkSize ranges over 1..MaxChunkSize
MaxChunkSize == 3

TextChars == {"a", "b", " "}
Texts == UNION {[1..n -> TextChars] : n \in 0..MaxTextLen}
ChunkArgs == {arg \in [text : Texts, chunkSize : 1..MaxChunkSize,
                       overlap : 0..(MaxChunkSize - 1)] : arg.chunkSize > arg.overlap}

ChunkTextCall ==
    /\ ~chunkResult.called
    /\ chunkResult' = [called |-> TRUE,
                       chunks |-> chunkText(chunkArg.text, chunkArg.chunkSize,
                                            chunkArg.overlap),
                       turns |-> LoopTurnsFrom(Split(chunkArg.text), 0,
                                               chunkArg.chunkSize, chunkArg.overlap)]
    /\ UNCHANGED <<chunkArg, useMockEmbeddings, embedCalls, retryCall>>
    /\ UNCHANGED <<redisVars, rateVars, tenantVars, dataVars, chatVars, clockVars>>

ChunkNext == ChunkTextCall

----------------------------------------------------------------------------
\* EmbeddingService (services/embedding.service.js): initialize() has set
\* useMockEmbeddings from USE_MOCK_EMBEDDINGS; the calls made afterwards are
\* kept, with what they returned, in embedCalls.

\* the components of an embedding
EmbeddingDim == 768
\* embedding calls in a run
MaxEmbedCalls == 2
\* texts in a generateEmbeddings call
MaxBatchTexts == 2

EmbedTexts == {<<>>, <<"a", "b">>, <<"b", "a">>}
EmbedBatches == UNION {[1..n -> EmbedTexts] : n \in 0..MaxBatchTexts}

\* String.prototype.charCodeAt(0)
CharCode(ch) ==
    IF ch = " " THEN 32 ELSE IF ch = "." THEN 46
    ELSE IF ch = "A" THEN 65 ELSE IF ch = "B" THEN 66 ELSE IF ch = "C" THEN 67
    ELSE IF ch = "a" THEN 97 ELSE IF ch = "b" THEN 98 ELSE 99

\* acc << 5 on 32-bit integers: the low 27 bits of acc move up by 5 places,
\* the 27th becoming the sign
ShiftLeft5(acc) ==
    LET low == acc % 134217728
    IN IF low < 67108864 THEN low * 32 ELSE (low - 134217728) * 32

\* text.split('').reduce((acc, char) => ((acc << 5) - acc) + char.charCodeAt(0), 0)
RECURSIVE HashFrom(_, _)
HashFrom(acc, text) ==
    IF text = <<>> THEN acc
    ELSE HashFrom((ShiftLeft5(acc) - acc) + CharCode(Head(text)), Tail(text))

\* generateMockEmbedding(text): component i (0-based) is
\* Math.sin((hash + i) * 0.001) * 0.5, a function of hash + i; the model
\* keeps hash + i, the argument of the sine in thousandths
generateMockEmbedding(text) ==
    [i \in 1..EmbeddingDim |-> HashFrom(0, text) + (i - 1)]

\* texts.map(...) with the texts taken from the last to the first
MapEmbeddingReversed(texts) ==
    [i \in 1..Len(texts) |-> generateMockEmbedding(texts[Len(texts) + 1 - i])]

\* texts.map(text => this.generateMockEmbedding(text))
MapEmbedding(texts) == [i \in 1..Len(texts) |-> generateMockEmbedding(texts[i])]

\* a call, as kept in embedCalls: the strategy that computed the vectors and
\* the requests made to an embedding model
EmbedCall(fn, texts, vectors) ==
    [fn |-> fn, texts |-> texts, vectors |-> vectors, strategy |-> "mock",
     modelRequests |-> 0, failed |-> FALSE]

\* generateEmbedding(text): the mock embedding on both branches
GenerateEmbedding(text) ==
    /\ Len(embedCalls) < MaxEmbedCalls
    /\ embedCalls' = Append(embedCalls,
            IF useMockEmbeddings
            THEN EmbedCall("generateEmbedding", <<text>>, <<generateMockEmbedding(text)>>)
            ELSE EmbedCall("generateEmbedding", <<text>>, <<generateMockEmbedding(text)>>))
    /\ UNCHANGED <<chunkArg, chunkResult, useMockEmbeddings, retryCall>>
    /\ UNCHANGED <<redisVars, rateVars, tenantVars, dataVars, chatVars, clockVars>>

\* generateEmbeddings(texts): the mock embeddings on both branches
GenerateEmbeddings(texts) ==
    /\ Len(embedCalls) < MaxEmbedCalls
    /\ embedCalls' = Append(embedCalls,
            IF useMockEmbeddings
            THEN EmbedCall("generateEmbeddings", texts, MapEmbedding(texts))
            ELSE EmbedCall("generateEmbeddings", texts, MapEmbedding(texts)))
    /\ UNCHANGED <<chunkArg, chunkResult, useMockEmbeddings, retryCall>>
    /\ UNCHANGED <<redisVars, rateVars, tenantVars, dataVars, chatVars, clockVars>>

EmbedNext ==
    \/ \E text \in EmbedTexts : GenerateEmbedding(text)
    \/ \E texts \in EmbedBatches : GenerateEmbeddings(texts)

----------------------------------------------------------------------------
\* The minute buckets over time.  minuteKey is
\* ratelimit:<tenantId>:minute:<Math.floor(Date.now() / 60000)>, computed
\* right before the INCR: counters["minute"] is the count under the key of
\* the current minute, and when the clock enters the next minute the key
\* that requests address is a new one, absent from the store.

\* the clock counts in fractions of a minute
TicksPerMinute == 2
\* the clock runs from 0 to MaxTime
MaxTime == 3

\* Math.floor(Date.now() / 60000)
MinuteBucket(time) == time \div TicksPerMinute

\* time passes; no request is between its minute INCR and the expire that
\* follows it (that expire is for the key the request incremented)
Tick ==
    /\ now < MaxTime
    /\ \A r \in Requests : rpc[r] # "minuteExpire"
    /\ now' = now + 1
    /\ IF MinuteBucket(now + 1) # MinuteBucket(now)
       THEN /\ counters' = [counters EXCEPT !["minute"] = 0]
            /\ expiry' = [expiry EXCEPT !["minute"] = 0]
       ELSE UNCHANGED <<counters, expiry>>
    /\ UNCHANGED <<redisVars, limits, rpc, minuteCount, hourCount, usageCount, reply>>
    /\ UNCHANGED <<requestTime, tenantVars, dataVars, chatVars, unitVars>>

WindowNext ==
    \/ RedisDisconnect
    \/ RedisReconnect
    \/ Tick
    \/ \E r \in Requests : RequestStep(r)

----------------------------------------------------------------------------
\* ChatService.processQuery (services/chat.service.js): the search, the
\* completion call under retryWithBackoff, and the session history kept
\* under the key session:<sessionId>.  One session id exists; "" is the
\* absent sessionId.  JSON.stringify / JSON.parse of the message list give
\* the list back, so the stored value is the list itself.

\* retryWithBackoff: maxRetries
MaxRetries == 3
\* saveToHistory keeps the last HistoryLimit messages
HistoryLimit == 20
\* redis.set(historyKey, ..., 3600)
SessionTtlSeconds == 3600
\* avgScore > 0.85 is 'high', > 0.70 is 'medium' (hundredths)
HighConfidence == 85
MediumConfidence == 70

\* processQuery's search options: limit 5 scaled to the largest limit of the
\* model, no sectionType
ChatSearchLimit == MaxLimit

SessionIds == {"", "s1"}
\* message.content of the completion: empty, or an answer
Completions == {"", "answer"}

NoChatLocal == [sessionId |-> "", history |-> <<>>, attempt |-> 0, response |-> "",
                completionCalls |-> 0, historyWrites |-> 0]

\* the messages of one earlier exchange of the session
EarlierExchange == <<[role |-> "user", content |-> Cab],
                      [role |-> "assistant", content |-> "answer"]>>

\* a session that holds HistoryLimit messages: the exchanges kept so far,
\* the oldest one with a question of its own
FullHistory ==
    [i \in 1..HistoryLimit |->
        IF i % 2 = 1
        THEN [role |-> "user", content |-> IF i = 1 THEN <<"a", "b">> ELSE Cab]
        ELSE [role |-> "assistant", content |-> "answer"]]

\* searchResults.length === 0 taken as never true
NoResultsNever(searchResults) == FALSE

\* searchResults.length === 0
NoResults(searchResults) == Len(searchResults) = 0

\* the answer returned when the search found nothing
NotEnoughInformation ==
    [answer |-> "I don't have enough information", confidence |-> "low", sources |-> <<>>]

\* getHistory(sessionId): redis.get(historyKey), [] when the reply is null
GetHistory == IF isConnected THEN session ELSE <<>>

\* Array.prototype.slice(0, n) in the place of slice(-n)
First(seq, n) == SubSeq(seq, 1, Min(n, Len(seq)))

\* Array.prototype.slice(-n)
Last(seq, n) == SubSeq(seq, Len(seq) - Min(n, Len(seq)) + 1, Len(seq))

RECURSIVE SumScores(_)
SumScores(results) ==
    IF results = <<>> THEN 0 ELSE Head(results).score + SumScores(Tail(results))

\* confidence, from avgScore = sum / length
Confidence(searchResults) ==
    IF SumScores(searchResults) > HighConfidence * Len(searchResults) THEN "high"
    ELSE IF SumScores(searchResults) > MediumConfidence * Len(searchResults) THEN "medium"
    ELSE "low"

\* responseData
ResponseData(response, searchResults) ==
    [answer |-> response,
     confidence |-> Confidence(searchResults),
     sources |-> [i \in 1..Len(searchResults) |->
                    [sectionId |-> searchResults[i].sectionId,
                     title |-> searchResults[i].sectionTitle,
                     type |-> searchResults[i].sectionType,
                     score |-> searchResults[i].score]]]

\* processQuery is called and calls vectorSearchService.search
ProcessQueryCall(w, tenantId, query, sessionId) ==
    /\ cpc[w] = "idle"
    /\ BeginCall(w, "search", tenantId,
                 [NoArg EXCEPT !.queryText = query, !.limit = ChatSearchLimit])
    /\ dpc' = [dpc EXCEPT ![w] = "vectorSearch"]
    /\ cpc' = [cpc EXCEPT ![w] = "search"]
    /\ clocal' = [clocal EXCEPT ![w] = [NoChatLocal EXCEPT !.sessionId = sessionId]]
    /\ UNCHANGED <<sections, chunks, owner, nextChunk, dlocal, dresult>>
    /\ UNCHANGED <<cresult, session, sessionTtl>>
    /\ UNCHANGED <<redisVars, rateVars, tenantVars, clockVars, unitVars>>

\* the search is over: the empty-result answer, or on to the completion
\* (after getHistory when there is a session)
ProcessQuerySearched(w) ==
    /\ cpc[w] = "search"
    /\ dpc[w] \in {"returned", "threw"}
    /\ IF dpc[w] = "threw"
       THEN /\ cpc' = [cpc EXCEPT ![w] = "threw"]
            /\ cresult' = [cresult EXCEPT ![w] = dresult[w]]
            /\ clocal' = clocal
       ELSE IF NoResults(dresult[w])
       THEN /\ cpc' = [cpc EXCEPT ![w] = "returned"]
            /\ cresult' = [cresult EXCEPT ![w] = NotEnoughInformation]
            /\ clocal' = clocal
       ELSE /\ cpc' = [cpc EXCEPT ![w] = "completion"]
            /\ cresult' = cresult
            /\ clocal' = [clocal EXCEPT ![w].history =
                            IF clocal[w].sessionId # "" THEN GetHistory ELSE <<>>]
    /\ UNCHANGED <<session, sessionTtl>>
    /\ UNCHANGED <<redisVars, rateVars, tenantVars, dataVars, clockVars, unitVars>>

\* one attempt of groq.chat.completions.create under retryWithBackoff
ProcessQueryCompletion(w) ==
    /\ cpc[w] = "completion"
    /\ \/ \* the attempt fails: retry after the delay, or throw lastError
          IF clocal[w].attempt < MaxRetries - 1
          THEN /\ clocal' = [clocal EXCEPT ![w].attempt = @ + 1,
                                           ![w].completionCalls = @ + 1]
               /\ UNCHANGED <<cpc, cresult>>
          ELSE /\ clocal' = [clocal EXCEPT ![w].completionCalls = @ + 1]
               /\ cpc' = [cpc EXCEPT ![w] = "threw"]
               /\ cresult' = [cresult EXCEPT ![w] = [error |-> "Completion failed"]]
       \/ \* the attempt succeeds
          \E content \in Completions :
            LET response == IF content = "" THEN "I couldn't generate a response."
                                            ELSE content
            IN IF clocal[w].sessionId # ""
               THEN \* saveToHistory: getHistory first
                    /\ clocal' = [clocal EXCEPT ![w].completionCalls = @ + 1,
                                                ![w].response = response,
                                                ![w].history = GetHistory]
                    /\ cpc' = [cpc EXCEPT ![w] = "saveToHistory"]
                    /\ cresult' = cresult
               ELSE /\ clocal' = [clocal EXCEPT ![w].completionCalls = @ + 1,
                                                ![w].response = response]
                    /\ cpc' = [cpc EXCEPT ![w] = "returned"]
                    /\ cresult' = [cresult EXCEPT ![w] = ResponseData(response, dresult[w])]
    /\ UNCHANGED <<session, sessionTtl>>
    /\ UNCHANGED <<redisVars, rateVars, tenantVars, dataVars, clockVars, unitVars>>

\* saveToHistory: redis.set(historyKey, trimmedHistory, 3600), then the
\* rest of processQuery
ProcessQuerySave(w) ==
    /\ cpc[w] = "saveToHistory"
    /\ session' = IF isConnected
                  THEN Last(clocal[w].history
                                \o <<[role |-> "user", content |-> darg[w].queryText],
                                     [role |-> "assistant", content |-> clocal[w].response]>>,
                            HistoryLimit)
                  ELSE session
    /\ sessionTtl' = IF isConnected THEN SessionTtlSeconds ELSE sessionTtl
    /\ clocal' = [clocal EXCEPT ![w].historyWrites = @ + 1]
    /\ cpc' = [cpc EXCEPT ![w] = "returned"]
    /\ cresult' = [cresult EXCEPT ![w] = ResponseData(clocal[w].response, dresult[w])]
    /\ UNCHANGED <<redisVars, rateVars, tenantVars, dataVars, clockVars, unitVars>>

\* half of the key's time to live has gone by since it was last set
SessionAge ==
    /\ sessionTtl = SessionTtlSeconds
    /\ sessionTtl' = SessionTtlSeconds \div 2
    /\ UNCHANGED <<cpc, clocal, cresult, session>>
    /\ UNCHANGED <<redisVars, rateVars, tenantVars, dataVars, clockVars, unitVars>>

\* the key session:<sessionId> expires
SessionExpire ==
    /\ sessionTtl > 0
    /\ session' = <<>>
    /\ sessionTtl' = 0
    /\ UNCHANGED <<cpc, clocal, cresult>>
    /\ UNCHANGED <<redisVars, rateVars, tenantVars, dataVars, clockVars, unitVars>>

ChatNext ==
    \/ RedisDisconnect
    \/ RedisReconnect
    \/ SessionAge
    \/ SessionExpire
    \/ \E w \in Workers :
        \/ \E tenantId \in Tenants, query \in Queries, sessionId \in SessionIds :
                ProcessQueryCall(w, tenantId, query, sessionId)
        \/ SearchVector(w)
        \/ SearchText(w)
        \/ SearchKeyword(w)
        \/ ProcessQuerySearched(w)
        \/ ProcessQueryCompletion(w)
        \/ ProcessQuerySave(w)

----------------------------------------------------------------------------
\* Specifications, one per subsystem.

\* The quota ledger: fresh minute, hour and month buckets of one tenant and
\* NumRequests concurrent requests; no tenant service call.
InitRate ==
    /\ isConnected = TRUE
    /\ everDown = FALSE
    /\ limits \in [requestsPerMinute : 1..MaxPerMinute,
                   requestsPerHour   : 1..MaxPerHour,
                   apiCallsPerMonth  : 1..MaxPerMonth]
    /\ counters = [k \in CounterKeys |-> 0]
    /\ expiry = [k \in CounterKeys |-> 0]
    /\ rpc = [r \in Requests |-> "minuteIncr"]
    /\ minuteCount = [r \in Requests |-> 0]
    /\ hourCount = [r \in Requests |-> 0]
    /\ usageCount = [r \in Requests |-> 0]
    /\ reply = [r \in Requests |-> NoReply]
    /\ tenantDoc = RegisteredTenant("free")
    /\ cacheTenant = <<>>
    /\ cacheApiKey = {}
    /\ issued = {1}
    /\ tpc = [c \in Calls |-> "idle"]
    /\ top = [c \in Calls |-> "none"]
    /\ tkey = [c \in Calls |-> 0]
    /\ tresult = [c \in Calls |-> <<>>]
    /\ fresh = [c \in Lookups |-> TRUE]
    /\ overlapped = FALSE
    /\ opsLeft = [c \in Calls |-> 0]
    /\ sections = {}
    /\ chunks = <<>>
    /\ owner = <<>>
    /\ nextChunk = 1
    /\ dpc = [w \in Workers |-> "off"]
    /\ dop = [w \in Workers |-> "none"]
    /\ dtenant = [w \in Workers |-> "t1"]
    /\ darg = [w \in Workers |-> NoArg]
    /\ dlocal = [w \in Workers |-> NoLocal]
    /\ dresult = [w \in Workers |-> NoResult]
    /\ cpc = [w \in Workers |-> "off"]
    /\ clocal = [w \in Workers |-> NoChatLocal]
    /\ cresult = [w \in Workers |-> NoResult]
    /\ session = <<>>
    /\ sessionTtl = 0
    /\ now = 0
    /\ requestTime = [r \in Requests |-> 0]
    /\ chunkArg = NoChunkArg
    /\ chunkResult = NotCalled
    /\ useMockEmbeddings = FALSE
    /\ embedCalls = <<>>
    /\ retryCall = NoRetry

SpecRate == InitRate /\ [][RateNext]_vars

\* The requests of SpecRate spread over two minutes of the clock.
SpecWindow == InitRate /\ [][WindowNext]_vars

\* chunkText on its own: the arguments are drawn at the start, the call
\* computes the chunks.
InitChunk ==
    /\ isConnected = TRUE
    /\ everDown = FALSE
    /\ limits = [requestsPerMinute |-> 1, requestsPerHour |-> 1, apiCallsPerMonth |-> 1]
    /\ counters = [k \in CounterKeys |-> 0]
    /\ expiry = [k \in CounterKeys |-> 0]
    /\ rpc = [r \in Requests |-> "off"]
    /\ minuteCount = [r \in Requests |-> 0]
    /\ hourCount = [r \in Requests |-> 0]
    /\ usageCount = [r \in Requests |-> 0]
    /\ reply = [r \in Requests |-> NoReply]
    /\ tenantDoc = RegisteredTenant("free")
    /\ cacheTenant = <<>>
    /\ cacheApiKey = {}
    /\ issued = {1}
    /\ tpc = [c \in Calls |-> "idle"]
    /\ top = [c \in Calls |-> "none"]
    /\ tkey = [c \in Calls |-> 0]
    /\ tresult = [c \in Calls |-> <<>>]
    /\ fresh = [c \in Lookups |-> TRUE]
    /\ overlapped = FALSE
    /\ opsLeft = [c \in Calls |-> 0]
    /\ sections = {}
    /\ chunks = <<>>
    /\ owner = <<>>
    /\ nextChunk = 1
    /\ dpc = [w \in Workers |-> "off"]
    /\ dop = [w \in Workers |-> "none"]
    /\ dtenant = [w \in Workers |-> "t1"]
    /\ darg = [w \in Workers |-> NoArg]
    /\ dlocal = [w \in Workers |-> NoLocal]
    /\ dresult = [w \in Workers |-> NoResult]
    /\ cpc = [w \in Workers |-> "off"]
    /\ clocal = [w \in Workers |-> NoChatLocal]
    /\ cresult = [w \in Workers |-> NoResult]
    /\ session = <<>>
    /\ sessionTtl = 0
    /\ now = 0
    /\ requestTime = [r \in Requests |-> 0]
    /\ chunkArg \in ChunkArgs
    /\ chunkResult = NotCalled
    /\ useMockEmbeddings = FALSE
    /\ embedCalls = <<>>
    /\ retryCall = NoRetry

SpecChunk == InitChunk /\ [][ChunkNext]_vars

\* The embedding service after initialize(), with or without
\* USE_MOCK_EMBEDDINGS, and a few calls.
InitEmbed ==
    /\ isConnected = TRUE
    /\ everDown = FALSE
    /\ limits = [requestsPerMinute |-> 1, requestsPerHour |-> 1, apiCallsPerMonth |-> 1]
    /\ counters = [k \in CounterKeys |-> 0]
    /\ expiry = [k \in CounterKeys |-> 0]
    /\ rpc = [r \in Requests |-> "off"]
    /\ minuteCount = [r \in Requests |-> 0]
    /\ hourCount = [r \in Requests |-> 0]
    /\ usageCount = [r \in Requests |-> 0]
    /\ reply = [r \in Requests |-> NoReply]
    /\ tenantDoc = RegisteredTenant("free")
    /\ cacheTenant = <<>>
    /\ cacheApiKey = {}
    /\ issued = {1}
    /\ tpc = [c \in Calls |-> "idle"]
    /\ top = [c \in Calls |-> "none"]
    /\ tkey = [c \in Calls |-> 0]
    /\ tresult = [c \in Calls |-> <<>>]
    /\ fresh = [c \in Lookups |-> TRUE]
    /\ overlapped = FALSE
    /\ opsLeft = [c \in Calls |-> 0]
    /\ sections = {}
    /\ chunks = <<>>
    /\ owner = <<>>
    /\ nextChunk = 1
    /\ dpc = [w \in Workers |-> "off"]
    /\ dop = [w \in Workers |-> "none"]
    /\ dtenant = [w \in Workers |-> "t1"]
    /\ darg = [w \in Workers |-> NoArg]
    /\ dlocal = [w \in Workers |-> NoLocal]
    /\ dresult = [w \in Workers |-> NoResult]
    /\ cpc = [w \in Workers |-> "off"]
    /\ clocal = [w \in Workers |-> NoChatLocal]
    /\ cresult = [w \in Workers |-> NoResult]
    /\ session = <<>>
    /\ sessionTtl = 0
    /\ now = 0
    /\ requestTime = [r \in Requests |-> 0]
    /\ chunkArg = NoChunkArg
    /\ chunkResult = NotCalled
    /\ useMockEmbeddings \in BOOLEAN
    /\ embedCalls = <<>>
    /\ retryCall = NoRetry

SpecEmbed == InitEmbed /\ [][EmbedNext]_vars

\* The life of the counter buckets: the requests of SpecRate, the expiry of
\* a key whose time to live runs out, and a request that is cut off between
\* an increment and its expire.  The event loop resumes every pending
\* handler, the client reconnects after an error, and the store removes a
\* key that has a time to live once it runs out; an outage or a cut-off
\* request may or may not happen.
SpecBucket ==
    /\ InitRate
    /\ [][BucketNext]_vars
    /\ \A r \in Requests : WF_vars(RequestStep(r))
    /\ \A key \in CounterKeys : WF_vars(KeyExpires(key))
    /\ WF_vars(RedisReconnect)

\* The tenant directory: the tenant as register() stored it, nothing cached,
\* no call made yet; no request in the quota ledger.
InitTenant ==
    /\ isConnected = TRUE
    /\ everDown = FALSE
    /\ limits = [requestsPerMinute |-> 1, requestsPerHour |-> 1, apiCallsPerMonth |-> 1]
    /\ counters = [k \in CounterKeys |-> 0]
    /\ expiry = [k \in CounterKeys |-> 0]
    /\ rpc = [r \in Requests |-> "admitted"]
    /\ minuteCount = [r \in Requests |-> 0]
    /\ hourCount = [r \in Requests |-> 0]
    /\ usageCount = [r \in Requests |-> 0]
    /\ reply = [r \in Requests |-> NoReply]
    /\ tenantDoc \in {RegisteredTenant(plan) : plan \in Plans}
    /\ cacheTenant = <<>>
    /\ cacheApiKey = {}
    /\ issued = {1}
    /\ tpc = [c \in Calls |-> "idle"]
    /\ top = [c \in Calls |-> "none"]
    /\ tkey = [c \in Calls |-> 0]
    /\ tresult = [c \in Calls |-> <<>>]
    /\ fresh = [c \in Lookups |-> TRUE]
    /\ overlapped = FALSE
    /\ opsLeft = [c \in Calls |-> IF c = Mutator THEN MaxMutations ELSE MaxLookupCalls]
    /\ sections = {}
    /\ chunks = <<>>
    /\ owner = <<>>
    /\ nextChunk = 1
    /\ dpc = [w \in Workers |-> "off"]
    /\ dop = [w \in Workers |-> "none"]
    /\ dtenant = [w \in Workers |-> "t1"]
    /\ darg = [w \in Workers |-> NoArg]
    /\ dlocal = [w \in Workers |-> NoLocal]
    /\ dresult = [w \in Workers |-> NoResult]
    /\ cpc = [w \in Workers |-> "off"]
    /\ clocal = [w \in Workers |-> NoChatLocal]
    /\ cresult = [w \in Workers |-> NoResult]
    /\ session = <<>>
    /\ sessionTtl = 0
    /\ now = 0
    /\ requestTime = [r \in Requests |-> 0]
    /\ chunkArg = NoChunkArg
    /\ chunkResult = NotCalled
    /\ useMockEmbeddings = FALSE
    /\ embedCalls = <<>>
    /\ retryCall = NoRetry

SpecTenant == InitTenant /\ [][TenantNext]_vars

\* The section store: empty, or holding one section of each tenant; every
\* worker makes one call of DataService or VectorSearchService.  No request
\* in the quota ledger, no tenant service call.
InitData ==
    /\ isConnected = TRUE
    /\ everDown = FALSE
    /\ limits = [requestsPerMinute |-> 1, requestsPerHour |-> 1, apiCallsPerMonth |-> 1]
    /\ counters = [k \in CounterKeys |-> 0]
    /\ expiry = [k \in CounterKeys |-> 0]
    /\ rpc = [r \in Requests |-> "admitted"]
    /\ minuteCount = [r \in Requests |-> 0]
    /\ hourCount = [r \in Requests |-> 0]
    /\ usageCount = [r \in Requests |-> 0]
    /\ reply = [r \in Requests |-> NoReply]
    /\ tenantDoc = RegisteredTenant("free")
    /\ cacheTenant = <<>>
    /\ cacheApiKey = {}
    /\ issued = {1}
    /\ tpc = [c \in Calls |-> "idle"]
    /\ top = [c \in Calls |-> "none"]
    /\ tkey = [c \in Calls |-> 0]
    /\ tresult = [c \in Calls |-> <<>>]
    /\ fresh = [c \in Lookups |-> TRUE]
    /\ overlapped = FALSE
    /\ opsLeft = [c \in Calls |-> 0]
    /\ \E store \in {EmptyStore, SeededStore} :
        /\ sections = store.sections
        /\ chunks = store.chunks
        /\ owner = store.owner
        /\ nextChunk = store.nextChunk
    /\ dpc = [w \in Workers |-> "idle"]
    /\ dop = [w \in Workers |-> "none"]
    /\ dtenant = [w \in Workers |-> "t1"]
    /\ darg = [w \in Workers |-> NoArg]
    /\ dlocal = [w \in Workers |-> NoLocal]
    /\ dresult = [w \in Workers |-> NoResult]
    /\ cpc = [w \in Workers |-> "off"]
    /\ clocal = [w \in Workers |-> NoChatLocal]
    /\ cresult = [w \in Workers |-> NoResult]
    /\ session = <<>>
    /\ sessionTtl = 0
    /\ now = 0
    /\ requestTime = [r \in Requests |-> 0]
    /\ chunkArg = NoChunkArg
    /\ chunkResult = NotCalled
    /\ useMockEmbeddings = FALSE
    /\ embedCalls = <<>>
    /\ retryCall = NoRetry

SpecData == InitData /\ [][DataNext]_vars

\* The retrieval engine alone: one search over a store that no one changes,
\* holding one or two sections of the first tenant and one of the second.
InitSearch ==
    /\ isConnected = TRUE
    /\ everDown = FALSE
    /\ limits = [requestsPerMinute |-> 1, requestsPerHour |-> 1, apiCallsPerMonth |-> 1]
    /\ counters = [k \in CounterKeys |-> 0]
    /\ expiry = [k \in CounterKeys |-> 0]
    /\ rpc = [r \in Requests |-> "admitted"]
    /\ minuteCount = [r \in Requests |-> 0]
    /\ hourCount = [r \in Requests |-> 0]
    /\ usageCount = [r \in Requests |-> 0]
    /\ reply = [r \in Requests |-> NoReply]
    /\ tenantDoc = RegisteredTenant("free")
    /\ cacheTenant = <<>>
    /\ cacheApiKey = {}
    /\ issued = {1}
    /\ tpc = [c \in Calls |-> "idle"]
    /\ top = [c \in Calls |-> "none"]
    /\ tkey = [c \in Calls |-> 0]
    /\ tresult = [c \in Calls |-> <<>>]
    /\ fresh = [c \in Lookups |-> TRUE]
    /\ overlapped = FALSE
    /\ opsLeft = [c \in Calls |-> 0]
    /\ \E store \in {SeededStore, Stored(SeededStore, "t1", PolicySection)} :
        /\ sections = store.sections
        /\ chunks = store.chunks
        /\ owner = store.owner
        /\ nextChunk = store.nextChunk
    /\ dpc = [w \in Workers |-> IF w = 1 THEN "idle" ELSE "off"]
    /\ dop = [w \in Workers |-> "none"]
    /\ dtenant = [w \in Workers |-> "t1"]
    /\ darg = [w \in Workers |-> NoArg]
    /\ dlocal = [w \in Workers |-> NoLocal]
    /\ dresult = [w \in Workers |-> NoResult]
    /\ cpc = [w \in Workers |-> "off"]
    /\ clocal = [w \in Workers |-> NoChatLocal]
    /\ cresult = [w \in Workers |-> NoResult]
    /\ session = <<>>
    /\ sessionTtl = 0
    /\ now = 0
    /\ requestTime = [r \in Requests |-> 0]
    /\ chunkArg = NoChunkArg
    /\ chunkResult = NotCalled
    /\ useMockEmbeddings = FALSE
    /\ embedCalls = <<>>
    /\ retryCall = NoRetry

SpecSearch == InitSearch /\ [][SearchNext]_vars

\* The chat service: one processQuery call over a store that no one changes,
\* the session empty or holding one earlier exchange.
InitChat ==
    /\ isConnected = TRUE
    /\ everDown = FALSE
    /\ limits = [requestsPerMinute |-> 1, requestsPerHour |-> 1, apiCallsPerMonth |-> 1]
    /\ counters = [k \in CounterKeys |-> 0]
    /\ expiry = [k \in CounterKeys |-> 0]
    /\ rpc = [r \in Requests |-> "admitted"]
    /\ minuteCount = [r \in Requests |-> 0]
    /\ hourCount = [r \in Requests |-> 0]
    /\ usageCount = [r \in Requests |-> 0]
    /\ reply = [r \in Requests |-> NoReply]
    /\ tenantDoc = RegisteredTenant("free")
    /\ cacheTenant = <<>>
    /\ cacheApiKey = {}
    /\ issued = {1}
    /\ tpc = [c \in Calls |-> "idle"]
    /\ top = [c \in Calls |-> "none"]
    /\ tkey = [c \in Calls |-> 0]
    /\ tresult = [c \in Calls |-> <<>>]
    /\ fresh = [c \in Lookups |-> TRUE]
    /\ overlapped = FALSE
    /\ opsLeft = [c \in Calls |-> 0]
    /\ \E store \in {SeededStore} :
        /\ sections = store.sections
        /\ chunks = store.chunks
        /\ owner = store.owner
        /\ nextChunk = store.nextChunk
    /\ dpc = [w \in Workers |-> "idle"]
    /\ dop = [w \in Workers |-> "none"]
    /\ dtenant = [w \in Workers |-> "t1"]
    /\ darg = [w \in Workers |-> NoArg]
    /\ dlocal = [w \in Workers |-> NoLocal]
    /\ dresult = [w \in Workers |-> NoResult]
    /\ cpc = [w \in Workers |-> IF w = 1 THEN "idle" ELSE "off"]
    /\ clocal = [w \in Workers |-> NoChatLocal]
    /\ cresult = [w \in Workers |-> NoResult]
    /\ session \in {<<>>, EarlierExchange, FullHistory}
    /\ sessionTtl = IF session = <<>> THEN 0 ELSE SessionTtlSeconds
    /\ now = 0
    /\ requestTime = [r \in Requests |-> 0]
    /\ chunkArg = NoChunkArg
    /\ chunkResult = NotCalled
    /\ useMockEmbeddings = FALSE
    /\ embedCalls = <<>>
    /\ retryCall = NoRetry

SpecChat == InitChat /\ [][ChatNext]_vars

\* Two processQuery calls at a time: every worker may call processQuery once
\* for tenant t1 and session s1, on a store that holds one section of t1,
\* with the session empty or holding one exchange; the cache store stays connected and the session does not expire
\* meanwhile.
InitSession ==
    /\ isConnected = TRUE
    /\ everDown = FALSE
    /\ limits = [requestsPerMinute |-> 1, requestsPerHour |-> 1, apiCallsPerMonth |-> 1]
    /\ counters = [k \in CounterKeys |-> 0]
    /\ expiry = [k \in CounterKeys |-> 0]
    /\ rpc = [r \in Requests |-> "admitted"]
    /\ minuteCount = [r \in Requests |-> 0]
    /\ hourCount = [r \in Requests |-> 0]
    /\ usageCount = [r \in Requests |-> 0]
    /\ reply = [r \in Requests |-> NoReply]
    /\ tenantDoc = RegisteredTenant("free")
    /\ cacheTenant = <<>>
    /\ cacheApiKey = {}
    /\ issued = {1}
    /\ tpc = [c \in Calls |-> "idle"]
    /\ top = [c \in Calls |-> "none"]
    /\ tkey = [c \in Calls |-> 0]
    /\ tresult = [c \in Calls |-> <<>>]
    /\ fresh = [c \in Lookups |-> TRUE]
    /\ overlapped = FALSE
    /\ opsLeft = [c \in Calls |-> 0]
    /\ \E store \in {Stored(EmptyStore, "t1", PolicySection)} :
        /\ sections = store.sections
        /\ chunks = store.chunks
        /\ owner = store.owner
        /\ nextChunk = store.nextChunk
    /\ dpc = [w \in Workers |-> "idle"]
    /\ dop = [w \in Workers |-> "none"]
    /\ dtenant = [w \in Workers |-> "t1"]
    /\ darg = [w \in Workers |-> NoArg]
    /\ dlocal = [w \in Workers |-> NoLocal]
    /\ dresult = [w \in Workers |-> NoResult]
    /\ cpc = [w \in Workers |-> "idle"]
    /\ clocal = [w \in Workers |-> NoChatLocal]
    /\ cresult = [w \in Workers |-> NoResult]
    /\ session \in {<<>>, EarlierExchange}
    /\ sessionTtl = IF session = <<>> THEN 0 ELSE SessionTtlSeconds
    /\ now = 0
    /\ requestTime = [r \in Requests |-> 0]
    /\ chunkArg = NoChunkArg
    /\ chunkResult = NotCalled
    /\ useMockEmbeddings = FALSE
    /\ embedCalls = <<>>
    /\ retryCall = NoRetry

\* the query of worker w's call: the callers ask different questions
SessionQuery(w) == IF w % 2 = 1 THEN Cab ELSE <<"A", "b", "c", " ", "c", "a", "b">>

SessionNext ==
    \E w \in Workers :
        \/ ProcessQueryCall(w, "t1", SessionQuery(w), "s1")
        \/ SearchVector(w)
        \/ SearchText(w)
        \/ SearchKeyword(w)
        \/ ProcessQuerySearched(w)
        \/ ProcessQueryCompletion(w)
        \/ ProcessQuerySave(w)

SpecSession == InitSession /\ [][SessionNext]_vars

----------------------------------------------------------------------------
\* retryWithBackoff(fn, maxRetries, initialDelay), called with any function
\* and any parameters, and its one call site, the completion call of
\* processQuery.

\* maxRetries ranges over 0..MaxRetriesArg
MaxRetriesArg == 3
\* the default of initialDelay, in milliseconds
InitialDelay == 1000
InitialDelays == {0, 1, InitialDelay}
\* what an invocation of fn does: it resolves with a value or rejects with
\* an error
FnOutcomes == {[ok |-> TRUE, value |-> "result"],
               [ok |-> FALSE, value |-> "error 1"],
               [ok |-> FALSE, value |-> "error 2"]}

\* Math.pow(2, i)
RECURSIVE Pow2(_)
Pow2(i) == IF i = 0 THEN 1 ELSE 2 * Pow2(i - 1)

\* the delay with the factor Math.pow(2, i) left out
DelayTimeFixed(initialDelay, i) == initialDelay

\* delayTime = initialDelay * Math.pow(2, i)
DelayTime(initialDelay, i) == initialDelay * Pow2(i)

\* retryWithBackoff is called: the loop test i < maxRetries with i = 0, and
\* throw lastError when it fails at once
RetryWithBackoffCall ==
    /\ retryCall.pc = "idle"
    /\ retryCall' = [retryCall EXCEPT !.pc = IF 0 < retryCall.maxRetries THEN "fn" ELSE "threw"]
    /\ UNCHANGED <<redisVars, rateVars, tenantVars, dataVars, chatVars, clockVars>>
    /\ UNCHANGED <<chunkArg, chunkResult, useMockEmbeddings, embedCalls>>

\* return await fn(), and the catch block up to its await or, after the
\* last turn of the loop, up to throw lastError
RetryInvoke ==
    /\ retryCall.pc = "fn"
    /\ \E outcome \in FnOutcomes :
        retryCall' =
            IF outcome.ok
            THEN [retryCall EXCEPT !.outcomes = Append(@, outcome), !.pc = "returned",
                                   !.result = outcome.value]
            ELSE IF retryCall.i < retryCall.maxRetries - 1
            THEN [retryCall EXCEPT !.outcomes = Append(@, outcome), !.pc = "delay",
                                   !.lastError = outcome.value]
            ELSE [retryCall EXCEPT !.outcomes = Append(@, outcome), !.pc = "threw",
                                   !.lastError = outcome.value, !.i = @ + 1]
    /\ UNCHANGED <<redisVars, rateVars, tenantVars, dataVars, chatVars, clockVars>>
    /\ UNCHANGED <<chunkArg, chunkResult, useMockEmbeddings, embedCalls>>

\* await delay(delayTime), then i++ and the loop test, which holds
RetryDelay ==
    /\ retryCall.pc = "delay"
    /\ retryCall' = [retryCall EXCEPT
                        !.delays = Append(@, DelayTime(retryCall.initialDelay, retryCall.i)),
                        !.i = @ + 1, !.pc = "fn"]
    /\ UNCHANGED <<redisVars, rateVars, tenantVars, dataVars, chatVars, clockVars>>
    /\ UNCHANGED <<chunkArg, chunkResult, useMockEmbeddings, embedCalls>>

\* One retryWithBackoff call with any parameters, and one processQuery call
\* of worker 1 for tenant t1 on a store that holds one section of t1.
InitRetry ==
    /\ isConnected = TRUE
    /\ everDown = FALSE
    /\ limits = [requestsPerMinute |-> 1, requestsPerHour |-> 1, apiCallsPerMonth |-> 1]
    /\ counters = [k \in CounterKeys |-> 0]
    /\ expiry = [k \in CounterKeys |-> 0]
    /\ rpc = [r \in Requests |-> "admitted"]
    /\ minuteCount = [r \in Requests |-> 0]
    /\ hourCount = [r \in Requests |-> 0]
    /\ usageCount = [r \in Requests |-> 0]
    /\ reply = [r \in Requests |-> NoReply]
    /\ tenantDoc = RegisteredTenant("free")
    /\ cacheTenant = <<>>
    /\ cacheApiKey = {}
    /\ issued = {1}
    /\ tpc = [c \in Calls |-> "idle"]
    /\ top = [c \in Calls |-> "none"]
    /\ tkey = [c \in Calls |-> 0]
    /\ tresult = [c \in Calls |-> <<>>]
    /\ fresh = [c \in Lookups |-> TRUE]
    /\ overlapped = FALSE
    /\ opsLeft = [c \in Calls |-> 0]
    /\ \E store \in {Stored(EmptyStore, "t1", PolicySection)} :
        /\ sections = store.sections
        /\ chunks = store.chunks
        /\ owner = store.owner
        /\ nextChunk = store.nextChunk
    /\ dpc = [w \in Workers |-> "idle"]
    /\ dop = [w \in Workers |-> "none"]
    /\ dtenant = [w \in Workers |-> "t1"]
    /\ darg = [w \in Workers |-> NoArg]
    /\ dlocal = [w \in Workers |-> NoLocal]
    /\ dresult = [w \in Workers |-> NoResult]
    /\ cpc = [w \in Workers |-> IF w = 1 THEN "idle" ELSE "off"]
    /\ clocal = [w \in Workers |-> NoChatLocal]
    /\ cresult = [w \in Workers |-> NoResult]
    /\ session = <<>>
    /\ sessionTtl = 0
    /\ now = 0
    /\ requestTime = [r \in Requests |-> 0]
    /\ chunkArg = NoChunkArg
    /\ chunkResult = NotCalled
    /\ useMockEmbeddings = FALSE
    /\ embedCalls = <<>>
    /\ retryCall \in {[NoRetry EXCEPT !.pc = "idle", !.maxRetries = n, !.initialDelay = d] :
                        n \in 0..MaxRetriesArg, d \in InitialDelays}

RetryNext ==
    \/ RetryWithBackoffCall
    \/ RetryInvoke
    \/ RetryDelay
    \/ \E w \in Workers :
        \/ \E sessionId \in SessionIds : ProcessQueryCall(w, "t1", SessionQuery(w), sessionId)
        \/ SearchVector(w)
        \/ SearchText(w)
        \/ SearchKeyword(w)
        \/ ProcessQuerySearched(w)
        \/ ProcessQueryCompletion(w)
        \/ ProcessQuerySave(w)

SpecRetry == InitRetry /\ [][RetryNext]_vars


----------------------------------------------------------------------------
\* Claims about the quota ledger.

\* the request has left rateLimiter
PastRateLimiter(r) == rpc[r] \notin {"minuteIncr", "minuteExpire", "hourIncr", "hourExpire"}
\* rateLimiter sent no reply: the request went on to checkMonthlyLimit
AdmittedByRateLimiter(r) == PastRateLimiter(r) /\ rpc[r] \notin {"rejectedMinute", "rejectedHour"}
\* the request has left the preHandler chain
Finished(r) == rpc[r] \in {"rejectedMinute", "rejectedHour", "rejectedMonth", "admitted"}
AdmittedByMonthlyLimit(r) == rpc[r] = "admitted"

\* C1: with the counter store available throughout and an hour limit that
\* cannot bind, once all N concurrent rateLimiter calls of the bucket have
\* returned, exactly min(N, requestsPerMinute) of them were admitted and
\* every other one was answered 429 with retryAfter = 60, whatever the
\* interleaving.
C1_MinuteAdmission ==
    (/\ ~everDown
     /\ limits.requestsPerHour >= NumRequests
     /\ \A r \in Requests : PastRateLimiter(r))
    => /\ Cardinality({r \in Requests : AdmittedByRateLimiter(r)})
            = Min(NumRequests, limits.requestsPerMinute)
       /\ \A r \in Requests :
            ~AdmittedByRateLimiter(r) => reply[r] = RateLimited(RetryAfterMinute)

\* C1 witness: more concurrent calls than the minute limit have all returned
\* with the store available, some admitted and some rejected.
C1_Witness ==
    /\ ~everDown
    /\ limits.requestsPerHour >= NumRequests
    /\ limits.requestsPerMinute < NumRequests
    /\ \A r \in Requests : PastRateLimiter(r)
    /\ \E r \in Requests : rpc[r] = "rejectedMinute"
    /\ \E r \in Requests : AdmittedByRateLimiter(r)

\* C2: the month counter and the number of calls admitted by
\* checkMonthlyLimit never exceed apiCallsPerMonth, under any interleaving
\* (stated for the runs in which the counter store never failed, so that the
\* fail-open path plays no part).
C2_MonthlyQuotaNeverExceeded ==
    ~everDown =>
        /\ counters["month"] <= limits.apiCallsPerMonth
        /\ Cardinality({r \in Requests : AdmittedByMonthlyLimit(r)})
                <= limits.apiCallsPerMonth

----------------------------------------------------------------------------
\* Claims about the tenant directory.

\* the fields a tenant mutation changes
SameProfile(a, b) ==
    /\ a.status = b.status
    /\ a.plan = b.plan
    /\ a.limits = b.limits
    /\ a.businessName = b.businessName
    /\ a.apiKeys = b.apiKeys

\* an authentication lookup (by tenant id or by API key) that returned a tenant
Authenticated(c) ==
    /\ tpc[c] = "returned"
    /\ top[c] \in {"getTenant", "getTenantByApiKey"}

\* C6: once changePlan has returned, a request that is authenticated
\* afterwards (by API key or by tenant id) is rate-limited against the
\* requestsPerMinute of the stored, new plan (stated for the runs in which
\* the cache store never failed).
C6_NextRequestUsesNewPlan ==
    \A c \in Lookups :
        (/\ ~everDown
         /\ tpc[Mutator] = "returned" /\ top[Mutator] = "changePlan"
         /\ Authenticated(c) /\ fresh[c])
        => tresult[c][1].limits.requestsPerMinute = tenantDoc.limits.requestsPerMinute

\* C7: when a tenant mutation has returned, the cache holds no pre-mutation
\* value: a tenant:<id> entry agrees with the stored document and no
\* apikey:<hash> entry is left for a key that is no longer the tenant's
\* (stated for the runs in which the cache store never failed and no lookup
\* was in progress while the mutation ran).
C7_MutationInvalidatesCache ==
    (~everDown /\ ~overlapped /\ tpc[Mutator] = "returned")
    => /\ cacheTenant # <<>> => SameProfile(cacheTenant[1], tenantDoc)
       /\ \A h \in cacheApiKey : h \in tenantDoc.apiKeys

\* C8: a lookup that began after deleteTenant / revokeApiKey returned does
\* not return a tenant when the stored tenant is deleted or the presented key
\* is no longer one of its keys (stated for the runs in which the cache store
\* never failed).
C8_LookupFailsWhenInactive ==
    \A c \in Lookups :
        (~everDown /\ Authenticated(c) /\ fresh[c])
        => /\ Active(tenantDoc)
           /\ top[c] = "getTenantByApiKey" => hashApiKey(tkey[c]) \in tenantDoc.apiKeys

----------------------------------------------------------------------------
\* Claims about the section store.

\* the chunk rows that carry the section's tenantId and sectionId
RowsOf(tenantId, sectionId) ==
    {i \in 1..Len(chunks) :
        chunks[i].tenantId = tenantId /\ chunks[i].sectionId = sectionId}

\* the section ids generated by the registerData call of worker w
BatchIds(w) ==
    {dlocal[w].results[i].sectionId : i \in 1..Len(dlocal[w].results)}
        \cup ({dlocal[w].sectionId} \ {0})

\* the registerData call of worker w is over, it was not cut short by a
\* rejected store call, and no other call has been made
RegisterAloneOver(w) ==
    /\ dop[w] = "registerData"
    /\ dpc[w] \in {"returned", "threw"}
    /\ dresult[w] # [error |-> "Store error"]
    /\ \A v \in Workers \ {w} : dpc[v] = "idle"

\* C3: when a registerData call is over, either every section of its batch
\* exists with chunkCount equal to its chunk rows (at least one), or no
\* section and no chunk row of the batch exists.
C3_RegisterAllOrNothing ==
    \A w \in Workers :
        RegisterAloneOver(w) =>
            LET mine == {doc \in sections : doc.sectionId \in BatchIds(w)}
                rows == {i \in 1..Len(chunks) : chunks[i].sectionId \in BatchIds(w)}
            IN \/ /\ Cardinality(mine) = Len(darg[w].sections)
                  /\ \A doc \in mine :
                        /\ doc.chunkCount = Cardinality(RowsOf(doc.tenantId, doc.sectionId))
                        /\ doc.chunkCount > 0
               \/ mine = {} /\ rows = {}

\* C4: in every reachable state each section's chunkCount equals the number
\* of chunk rows that carry its tenantId and sectionId.
C4_ChunkCountMatchesRows ==
    \A doc \in sections :
        doc.chunkCount = Cardinality(RowsOf(doc.tenantId, doc.sectionId))

\* the section documents / chunk rows of a tenant
SectionsOf(tenantId) == {doc \in sections : doc.tenantId = tenantId}
ChunksOf(tenantId) == SelectSeq(chunks, LAMBDA row : row.tenantId = tenantId)

\* what a call of worker w holds or has returned belongs to its tenant
ReadsOwn(w) ==
    /\ dlocal[w].section # <<>> => dlocal[w].section[1].tenantId = dtenant[w]
    /\ (dpc[w] = "returned" /\ dop[w] \in {"getSection", "updateSection"})
            => dresult[w].tenantId = dtenant[w]
    /\ (dpc[w] = "returned" /\ dop[w] = "search")
            => \A i \in 1..Len(dresult[w]) : owner[dresult[w][i].sectionId] = dtenant[w]
    /\ \A i \in 1..Len(dlocal[w].consulted) :
            \A j \in 1..Len(dlocal[w].consulted[i].output) :
                owner[dlocal[w].consulted[i].output[j].sectionId] = dtenant[w]

\* a step that changes the rows of a tenant is a step of a call made for
\* that tenant
WritesOwn ==
    \A tenantId \in Tenants :
        (SectionsOf(tenantId)' # SectionsOf(tenantId) \/ ChunksOf(tenantId)' # ChunksOf(tenantId))
            => \E w \in Workers : dpc'[w] # dpc[w] /\ dtenant'[w] = tenantId

\* C5: tenant isolation: every passage search returns, in any tier, and
\* every section getSection and updateSection read belongs to the calling
\* tenant, and no step of a call creates, modifies or deletes a row of
\* another tenant, whatever sectionId the call was given.
C5_TenantIsolation ==
    [][WritesOwn /\ \A w \in Workers : ReadsOwn(w)']_vars

\* calls given a sectionId of the other tenant have run to their end, one
\* of them a deleteSection, and a search of the tenant returned passages
\* while the other tenant has rows
C5_Witness ==
    /\ \E w \in Workers :
        /\ dop[w] \in {"deleteSection", "updateSection", "getSection"}
        /\ dpc[w] = "threw"
        /\ darg[w].sectionId \in 1..Len(owner)
        /\ owner[darg[w].sectionId] # dtenant[w]
        /\ \E doc \in sections : doc.sectionId = darg[w].sectionId
        /\ RowsOf(owner[darg[w].sectionId], darg[w].sectionId) # {}
    /\ \E w \in Workers :
        /\ dop[w] = "search"
        /\ dpc[w] = "returned"
        /\ Len(dresult[w]) > 0
        /\ \E other \in Tenants \ {dtenant[w]} : Len(ChunksOf(other)) > 0

----------------------------------------------------------------------------
\* Claims about the retrieval engine.

TierOrder == <<"vector", "text", "keyword">>

\* C9: the tiers are consulted in the order vector, full-text, keyword; the
\* full-text tier is consulted iff the vector tier raised or returned
\* nothing, the keyword tier iff the full-text tier was consulted and
\* raised or returned nothing; search returns the output of the first tier
\* with at least one passage (the keyword tier's output when none has) and
\* never throws.
C9_TiersInOrder ==
    \A w \in Workers :
        dop[w] = "search" =>
            LET c == dlocal[w].consulted
                Failed(i) == c[i].outcome \in {"raised", "empty"}
            IN /\ dpc[w] # "threw"
               /\ Len(c) <= 3
               /\ \A i \in 1..Len(c) : c[i].tier = TierOrder[i]
               /\ \A i \in 1..(Len(c) - 1) : Failed(i)
               /\ dpc[w] = "vectorSearch" => Len(c) = 0
               /\ dpc[w] = "textSearch" => Len(c) = 1 /\ Failed(1)
               /\ dpc[w] = "keywordSearch" => Len(c) = 2 /\ Failed(2)
               /\ dpc[w] = "returned" =>
                    /\ Len(c) >= 1
                    /\ Len(c) < 3 => c[Len(c)].outcome = "hits"
                    /\ dresult[w] = c[Len(c)].output
                    /\ Len(dresult[w]) = 0 => Len(c) = 3

\* a search returned the keyword tier's passages after the vector tier
\* raised and the full-text tier found nothing
C9_Witness ==
    \E w \in Workers :
        /\ dop[w] = "search"
        /\ dpc[w] = "returned"
        /\ Len(dlocal[w].consulted) = 3
        /\ dlocal[w].consulted[1].outcome = "raised"
        /\ dlocal[w].consulted[2].outcome = "empty"
        /\ dlocal[w].consulted[3].outcome = "hits"

\* the search of worker w returned what the keyword tier found
KeywordTierReturned(w) ==
    /\ dop[w] = "search"
    /\ dpc[w] = "returned"
    /\ Len(dlocal[w].consulted) = 3
    /\ dlocal[w].consulted[3].outcome = "hits"

\* the query of worker w has no character that is special in a regular
\* expression
PlainQuery(w) == \A j \in 1..Len(darg[w].queryText) : darg[w].queryText[j] # "."

\* C10: for a query of plain words, every passage the keyword tier returns
\* contains every keyword of the query, case-insensitively, in its text or
\* in its title.
C10_PassageHasEveryKeyword ==
    \A w \in Workers :
        (KeywordTierReturned(w) /\ PlainQuery(w)) =>
            LET keywords == Keywords(darg[w].queryText)
            IN \A i \in 1..Len(dresult[w]) : \A k \in 1..Len(keywords) :
                    \/ Includes(ToLowerCase(dresult[w][i].text), keywords[k])
                    \/ Includes(ToLowerCase(dresult[w][i].sectionTitle), keywords[k])

\* the occurrences of the plain word in s, counted from left to right
\* without overlap
RECURSIVE OccurrencesFrom(_, _, _)
OccurrencesFrom(s, word, i) ==
    IF i + Len(word) - 1 > Len(s) THEN 0
    ELSE IF SubSeq(s, i, i + Len(word) - 1) = word
         THEN 1 + OccurrencesFrom(s, word, i + Len(word))
         ELSE OccurrencesFrom(s, word, i + 1)

\* the occurrences of all the keywords in the passage's text and title
RECURSIVE KeywordOccurrences(_, _)
KeywordOccurrences(passage, keywords) ==
    IF keywords = <<>> THEN 0
    ELSE OccurrencesFrom(ToLowerCase(passage.text), Head(keywords), 1)
         + OccurrencesFrom(ToLowerCase(passage.sectionTitle), Head(keywords), 1)
         + KeywordOccurrences(passage, Tail(keywords))

\* C11: the score of every passage the keyword tier returns is
\* min(1.0, 0.15 * n), n being the number of occurrences of the query's
\* keywords in the passage's text and title (scores in hundredths).
C11_KeywordScoreIsOccurrences ==
    \A w \in Workers :
        KeywordTierReturned(w) =>
            \A i \in 1..Len(dresult[w]) :
                dresult[w][i].score =
                    Min(ScoreCap,
                        KeywordWeight * KeywordOccurrences(dresult[w][i],
                                                           Keywords(darg[w].queryText)))

\* C12: when the vector and full-text tiers yield nothing and the keyword
\* tier returns passages, there are at most `limit` of them, every score is
\* above 0.1, and the scores do not increase along the output.
C12_KeywordRanking ==
    \A w \in Workers :
        KeywordTierReturned(w) =>
            /\ dlocal[w].consulted[1].outcome \in {"raised", "empty"}
            /\ dlocal[w].consulted[2].outcome \in {"raised", "empty"}
            /\ Len(dresult[w]) <= darg[w].limit
            /\ \A i \in 1..Len(dresult[w]) : dresult[w][i].score > MinRelevance
            /\ \A i, j \in 1..Len(dresult[w]) :
                    i < j => dresult[w][i].score >= dresult[w][j].score

\* the keyword tier returned two passages with different scores, the better
\* one inserted later than the other, having dropped a third candidate
C12_Witness ==
    \E w \in Workers :
        /\ KeywordTierReturned(w)
        /\ Len(dresult[w]) = 2
        /\ Len(dresult[w]) = darg[w].limit
        /\ dresult[w][1].score > dresult[w][2].score
        /\ dresult[w][1].chunkId > dresult[w][2].chunkId
        /\ Len(SelectSeq(chunks, LAMBDA row :
                KeywordFilter(row, dtenant[w], darg[w].sectionType,
                              Keywords(darg[w].queryText)))) > 2

\* worker w's processQuery call is over
ProcessQueryOver(w) == cpc[w] \in {"returned", "threw"}

\* the search of worker w consulted the three tiers and none gave a passage
NoTierGavePassages(w) ==
    /\ Len(dlocal[w].consulted) = 3
    /\ \A i \in 1..3 : dlocal[w].consulted[i].outcome # "hits"

\* C13: when the keyword tier fails, the search raises and processQuery
\* ends with an error, not with an answer.
C13_KeywordFailureIsFatal ==
    \A w \in Workers :
        ( /\ ProcessQueryOver(w)
          /\ Len(dlocal[w].consulted) = 3
          /\ dlocal[w].consulted[3].outcome = "raised" )
            => /\ dpc[w] = "threw"
               /\ cpc[w] = "threw"

\* C14: when none of the three tiers gives a passage, the search returns the
\* empty list without raising, and processQuery returns the 'not enough
\* information' answer with confidence low and no sources, having made no
\* completion call and no write to the session history.
C14_NoPassagesAnswer ==
    \A w \in Workers :
        (ProcessQueryOver(w) /\ NoTierGavePassages(w))
            => /\ dpc[w] = "returned"
               /\ dresult[w] = <<>>
               /\ cpc[w] = "returned"
               /\ cresult[w] = NotEnoughInformation
               /\ cresult[w].confidence = "low"
               /\ cresult[w].sources = <<>>
               /\ clocal[w].completionCalls = 0
               /\ clocal[w].historyWrites = 0

\* a call with a session id, the session holding an earlier exchange, ended
\* after three tiers without passages
C14_Witness ==
    \E w \in Workers :
        /\ ProcessQueryOver(w)
        /\ NoTierGavePassages(w)
        /\ dlocal[w].consulted[3].outcome = "empty"
        /\ clocal[w].sessionId = "s1"
        /\ session = EarlierExchange

\* the search of worker w has returned
SearchReturned(w) == dop[w] = "search" /\ dpc[w] = "returned"

\* C15: every passage a search returns, whichever tier gave it, has a score
\* within [0, 1] (0..100 in hundredths).
C15_ScoreWithinUnitInterval ==
    \A w \in Workers :
        SearchReturned(w) =>
            \A i \in 1..Len(dresult[w]) :
                dresult[w][i].score >= 0 /\ dresult[w][i].score <= ScoreCap

\* the place of a chunk in the collection: rows are appended as they are
\* inserted
InsertionRank(chunkId) == CHOOSE i \in 1..Len(chunks) : chunks[i].chunkId = chunkId

\* the passages are in descending score order, equal scores in insertion
\* order
RankedThenInsertionOrder(results) ==
    \A i, j \in 1..Len(results) :
        i < j => \/ results[i].score > results[j].score
                 \/ /\ results[i].score = results[j].score
                    /\ InsertionRank(results[i].chunkId) < InsertionRank(results[j].chunkId)

\* C16: the passages a search returns, whichever tier gave them, are in
\* descending score order, and passages of equal score are in chunk
\* insertion order, earliest first.
C16_TieBreakByInsertionOrder ==
    \A w \in Workers : SearchReturned(w) => RankedThenInsertionOrder(dresult[w])

----------------------------------------------------------------------------
\* Claims about the order of the admission checks and the expiry of the
\* counter buckets.

\* where a request is once the minute check has let it through
PastMinuteCheck == {"hourIncr", "hourExpire", "rejectedHour", "monthGet", "monthIncr",
                    "monthExpire", "rejectedMonth", "admitted"}
\* where a request is once the hour check has let it through
PastHourCheck == {"monthGet", "monthIncr", "monthExpire", "rejectedMonth", "admitted"}

\* request r takes a step that brings it to position p
Arrives(r, p) == rpc[r] # p /\ rpc'[r] = p

\* C17: the step that denies a request at the minute check changes neither
\* the hour nor the month counter, and the request does nothing afterwards;
\* the step that denies a request at the hour check finds the incremented
\* hour count above requestsPerHour, answers retryAfter = 3600, leaves the
\* month counter as it is, and the request does nothing afterwards; the
\* hour counter changes only in the hour increment of a request that was not
\* denied at the minute check, and the month counter only in the month
\* increment of a request that neither check denied.
C17_AdmissionShortCircuits ==
    [][ /\ \A r \in Requests :
            /\ Arrives(r, "rejectedMinute")
                    => /\ counters'["hour"] = counters["hour"]
                       /\ counters'["month"] = counters["month"]
                       /\ reply'[r] = RateLimited(RetryAfterMinute)
            /\ Arrives(r, "rejectedHour")
                    => /\ counters'["hour"] > limits.requestsPerHour
                       /\ counters'["month"] = counters["month"]
                       /\ reply'[r] = RateLimited(RetryAfterHour)
            /\ rpc[r] \in {"rejectedMinute", "rejectedHour"} => rpc'[r] = rpc[r]
            /\ rpc'[r] \in PastMinuteCheck \ {"rejectedHour"}
                    => reply'[r].retryAfter = 0
        /\ counters'["hour"] # counters["hour"]
                => \E r \in Requests :
                        /\ rpc[r] = "hourIncr" /\ rpc'[r] # "hourIncr"
                        /\ reply[r] = NoReply
        /\ counters'["month"] # counters["month"]
                => \E r \in Requests :
                        /\ rpc[r] = "monthIncr" /\ rpc'[r] # "monthIncr"
                        /\ reply[r] = NoReply
      ]_vars

\* one request was denied at the hour check after the other one had gone
\* through all three checks: the hour bucket counts both, the month bucket
\* only the admitted one
C17_Witness ==
    \E r1, r2 \in Requests :
        /\ rpc[r1] = "admitted"
        /\ rpc[r2] = "rejectedHour"
        /\ reply[r2] = RateLimited(RetryAfterHour)
        /\ counters["hour"] = 2
        /\ counters["month"] = 1

\* request r takes a step from position p
Leaves(r, p) == rpc[r] = p /\ rpc'[r] # p

\* C18: while the counter store is available, a checkMonthlyLimit call that
\* reads a counter at or above apiCallsPerMonth is denied with the usage it
\* read and the limit, without retryAfter, and leaves the counter as it is;
\* a call that reads a lower counter sends nothing, and when no other call
\* has touched the counter since, its increment raises the counter by
\* exactly 1, to no more than the limit, and the call is admitted.
C18_MonthlyCheckOfOneCall ==
    [][ ~everDown' =>
        \A r \in Requests :
            /\ Leaves(r, "monthGet")
                    => /\ counters' = counters
                       /\ IF counters["month"] >= limits.apiCallsPerMonth
                          THEN /\ rpc'[r] = "rejectedMonth"
                               /\ reply'[r] = MonthlyExceeded(counters["month"],
                                                              limits.apiCallsPerMonth)
                               /\ reply'[r].retryAfter = 0
                          ELSE /\ rpc'[r] = "monthIncr"
                               /\ reply'[r] = NoReply
            /\ (Leaves(r, "monthIncr") /\ counters["month"] = usageCount[r])
                    => /\ counters'["month"] = counters["month"] + 1
                       /\ counters'["month"] <= limits.apiCallsPerMonth
                       /\ rpc'[r] \in {"monthExpire", "admitted"}
                       /\ reply'[r] = NoReply
            /\ Leaves(r, "monthExpire")
                    => /\ counters' = counters
                       /\ rpc'[r] = "admitted"
                       /\ reply'[r] = NoReply
            /\ rpc[r] \in {"rejectedMonth", "admitted"} => rpc'[r] = rpc[r]
      ]_vars

\* with the store available throughout, one call was admitted and raised
\* the counter to the limit, and the next call was denied with that usage
C18_Witness ==
    /\ ~everDown
    /\ \E r1, r2 \in Requests :
        /\ rpc[r1] = "admitted"
        /\ rpc[r2] = "rejectedMonth"
        /\ counters["month"] = limits.apiCallsPerMonth
        /\ reply[r2] = MonthlyExceeded(limits.apiCallsPerMonth, limits.apiCallsPerMonth)

\* the position from which a request sets the expiry of a bucket, and the
\* time to live it sets
ExpirePosition(key) ==
    IF key = "minute" THEN "minuteExpire" ELSE IF key = "hour" THEN "hourExpire"
    ELSE "monthExpire"
TimeToLive(key) ==
    IF key = "minute" THEN MinuteTtl ELSE IF key = "hour" THEN HourTtl ELSE MonthTtl

\* C19: while the counter store is available, a request that sets the expiry
\* of a bucket finds the bucket without one and gives it its time to live
\* (60 s, 3600 s, 60 days): no request sets the expiry of a bucket that
\* already has one, whatever the interleaving.
C19_ExpirySetOncePerBucket ==
    [][ ~everDown' =>
        \A r \in Requests : \A key \in CounterKeys :
            Leaves(r, ExpirePosition(key))
                => /\ expiry[key] = 0
                   /\ expiry'[key] = TimeToLive(key)
      ]_vars

\* C20: every counter key that exists comes to carry an expiry and comes to
\* be removed, also when the expire of the request that created it failed
\* or that request was cut off before it.
C20_BucketsSelfClean ==
    \A key \in CounterKeys :
        /\ (counters[key] > 0) ~> (expiry[key] > 0)
        /\ (counters[key] > 0) ~> (counters[key] = 0)

----------------------------------------------------------------------------
\* Claims about failures of the counter store.

Denied == {"rejectedMinute", "rejectedHour", "rejectedMonth"}

----------------------------------------------------------------------------
\* Claims about the section quota.

\* the sections tenantId owns
OwnedCount(tenantId) == Cardinality({doc \in sections : doc.tenantId = tenantId})

\* worker w's call failed with the quota error
QuotaError(w) == dpc[w] = "threw" /\ dresult[w] = [error |-> "Section limit exceeded"]

\* worker w takes the first step of a registerData call
CallsRegisterData(w) == dpc[w] = "idle" /\ dpc'[w] # "idle" /\ dop'[w] = "registerData"

\* C22: a registerData call whose batch, added to the sections the tenant
\* owns when the call counts them, exceeds sectionsPerTenant fails with the
\* quota error in the step that counts, having inserted no section and no
\* chunk, and does nothing afterwards; a call whose batch fits is not
\* rejected for quota.
C22_SectionQuotaOfOneCall ==
    [][ \A w \in Workers :
            /\ CallsRegisterData(w)
                    => /\ sections' = sections
                       /\ chunks' = chunks
                       /\ QuotaError(w)' <=>
                            (OwnedCount(dtenant'[w]) + Len(darg'[w].sections)
                                > SectionsPerTenant)
            /\ QuotaError(w) => QuotaError(w)'
            /\ (~QuotaError(w) /\ QuotaError(w)') => CallsRegisterData(w)
      ]_vars

\* a tenant owning one section short of the limit submitted two sections:
\* the call failed with the quota error and the tenant owns what it owned
C22_Witness ==
    \E w \in Workers :
        /\ QuotaError(w)
        /\ dop[w] = "registerData"
        /\ Len(darg[w].sections) = 2
        /\ OwnedCount(dtenant[w]) = SectionsPerTenant - 1
        /\ \A v \in Workers \ {w} : dpc[v] = "idle"

\* C29: whatever the interleaving of the registerData calls of a tenant, the
\* tenant never owns more than sectionsPerTenant sections.
C29_SectionLimitNeverExceeded ==
    \A tenantId \in Tenants : OwnedCount(tenantId) <= SectionsPerTenant

----------------------------------------------------------------------------
\* Claims about the minute window.

\* C23: while the counter store is available, in every interval of 60
\* seconds, wherever it starts, rateLimiter admits at most
\* requestsPerMinute requests of the tenant.
C23_SlidingMinuteWindow ==
    ~everDown =>
        \A start \in 0..MaxTime :
            Cardinality({r \in Requests :
                            /\ AdmittedByRateLimiter(r)
                            /\ requestTime[r] >= start
                            /\ requestTime[r] < start + TicksPerMinute})
                <= limits.requestsPerMinute

----------------------------------------------------------------------------
\* Claims about chunkText.

\* the tokens of the text of the call, and the window of chunkSize tokens
\* that starts at token i (0-based)
Tokens == Split(chunkArg.text)
Window(i) == SubSeq(Tokens, i + 1, Min(i + chunkArg.chunkSize, Len(Tokens)))
\* the window joined by single spaces, trimmed
Span(i) == Trim(JoinSpace(Window(i)))
\* the starts 0, chunkSize - overlap, 2 (chunkSize - overlap), ... below n
WindowStarts ==
    {i \in 0..(Len(Tokens) - 1) : i % (chunkArg.chunkSize - chunkArg.overlap) = 0}
\* the starts whose span is not empty
KeptStarts == {i \in WindowStarts : Span(i) # <<>>}
\* the k-th of them
KeptStart(k) == CHOOSE i \in KeptStarts : Cardinality({j \in KeptStarts : j <= i}) = k

\* C24: chunkText returns, in order, the spans of the windows of chunkSize
\* tokens that start at 0, chunkSize - overlap, 2 (chunkSize - overlap), ...
\* below the number of tokens, each joined by single spaces and trimmed,
\* without the empty ones; every span is non-empty and has no whitespace
\* at either end; and of two consecutive windows that are both full, the
\* last `overlap` tokens of the first are the first `overlap` tokens of the
\* second, being the same places of the text.
C24_ChunkTextWindows ==
    chunkResult.called =>
        LET out == chunkResult.chunks
            size == chunkArg.chunkSize
            over == chunkArg.overlap
        IN /\ Len(out) = Cardinality(KeptStarts)
           /\ \A k \in 1..Len(out) :
                /\ out[k] = Span(KeptStart(k))
                /\ out[k] # <<>>
                /\ ~IsSpace(out[k][1])
                /\ ~IsSpace(out[k][Len(out[k])])
           /\ \A k \in 1..(Len(out) - 1) :
                LET first == Split(out[k])
                    second == Split(out[k + 1])
                IN (Len(first) = size /\ Len(second) = size)
                    => /\ KeptStart(k + 1) = KeptStart(k) + (size - over)
                       /\ SubSeq(first, size - over + 1, size) = SubSeq(second, 1, over)

\* a text of three words cut into windows of two words that overlap by one:
\* two full windows and a last, shorter one
C24_Witness ==
    /\ chunkResult.called
    /\ chunkArg.chunkSize = 2
    /\ chunkArg.overlap = 1
    /\ Len(Tokens) = 3
    /\ Len(chunkResult.chunks) = 3
    /\ Len(Split(chunkResult.chunks[2])) = 2

\* the section documents whose content a step stores: inserted, or given a
\* new content by an update
WrittenSections ==
    {doc \in sections' :
        ~\E before \in sections :
            before.sectionId = doc.sectionId /\ before.content = doc.content}

\* C25: ingestion never stores a section whose content is shorter than the
\* minimum content length or gives no chunk: registerData and updateSection
\* reject such content.
C25_ShortContentRejected ==
    [][ \A doc \in WrittenSections :
            /\ Len(doc.content) >= MinSize
            /\ Len(chunkText(doc.content, ChunkSize, ChunkOverlap)) > 0
      ]_vars

----------------------------------------------------------------------------
\* Claims about the embedding service.

\* the (call, place) pairs of the texts embedded so far
Embedded == {<<c, i>> \in (1..Len(embedCalls)) \X (1..MaxBatchTexts) :
                i <= Len(embedCalls[c].texts)}

C27_ModelBackedRetries ==
    ~useMockEmbeddings =>
        \A c \in 1..Len(embedCalls) :
            /\ embedCalls[c].strategy = "model"
            /\ embedCalls[c].failed => embedCalls[c].modelRequests = MaxRetries

----------------------------------------------------------------------------
\* Claims about the session history.

\* worker w's saveToHistory writes the key in this step
SavesHistory(w) == cpc[w] = "saveToHistory" /\ cpc'[w] # "saveToHistory" /\ isConnected

\* the exchange worker w saves
Exchange(w) == <<[role |-> "user", content |-> darg[w].queryText],
                 [role |-> "assistant", content |-> clocal[w].response]>>

\* the messages are user / assistant pairs
IsExchanges(history) ==
    /\ Len(history) % 2 = 0
    /\ \A i \in 1..Len(history) :
            history[i].role = IF i % 2 = 1 THEN "user" ELSE "assistant"

\* C28: the stored history never has more than 20 messages and is made of
\* user / assistant pairs; a save whose call read the history as it is
\* stored (no other write, expiry or failed read in between) stores the
\* history followed by the new exchange, cut to its last 20 messages, and
\* every save sets the key's time to live back to 3600 seconds.
C28_SessionHistoryCapped ==
    [][ /\ Len(session') <= HistoryLimit
        /\ IsExchanges(session')
        /\ \A w \in Workers :
            SavesHistory(w)
                => /\ sessionTtl' = SessionTtlSeconds
                   /\ clocal[w].history = session
                        => /\ session' = Last(session \o Exchange(w), HistoryLimit)
                           /\ \A i \in 1..(Len(session') - 2) :
                                session'[i] = session[i + (Len(session) + 2 - Len(session'))]
      ]_vars

\* a save onto a full history: the oldest exchange is gone, the new one is
\* last, and the time to live is 3600 seconds
C28_Witness ==
    \E w \in Workers :
        /\ cpc[w] = "returned"
        /\ clocal[w].historyWrites = 1
        /\ clocal[w].history = FullHistory
        /\ Len(session) = HistoryLimit
        /\ session[1] = FullHistory[3]
        /\ SubSeq(session, HistoryLimit - 1, HistoryLimit) = Exchange(w)
        /\ sessionTtl = SessionTtlSeconds

\* every call of the tenant service has completed
AllCompleted == \A c \in Calls : Quiet(c)

\* the mutation made was changePlan, updateTenant or deleteTenant, the calls
\* that write the store and then delete tenant:<id>
InvalidatingMutation ==
    tpc[Mutator] # "idle" /\ top[Mutator] \in {"changePlan", "updateTenant", "deleteTenant"}

\* C30: once every call has completed, getTenant lookups having run in any
\* interleaving with a changePlan, updateTenant or deleteTenant, the
\* tenant:<id> cache entry is absent or agrees with the stored record in
\* every field a mutation changes (stated for the runs in which the cache
\* store never failed).
C30_CacheAgreesOnceCompleted ==
    (~everDown /\ AllCompleted /\ InvalidatingMutation)
    => (cacheTenant = <<>> \/ SameProfile(cacheTenant[1], tenantDoc))

\* the last mutation, now returned, was one that deletes a cache entry
InvalidatedAndReturned ==
    /\ tpc[Mutator] = "returned"
    /\ top[Mutator] \in {"changePlan", "updateTenant", "revokeApiKey", "deleteTenant"}

\* what lookup c returned is the stored, post-mutation state: the tenant is
\* active, the limits are the stored ones and the presented key is still one
\* of the tenant's
ReturnsStoredState(c) ==
    /\ Active(tenantDoc)
    /\ tresult[c][1].plan = tenantDoc.plan
    /\ tresult[c][1].limits = tenantDoc.limits
    /\ top[c] = "getTenantByApiKey" => hashApiKey(tkey[c]) \in tenantDoc.apiKeys

\* C31: a getTenant / getTenantByApiKey that begins after changePlan,
\* updateTenant, revokeApiKey or deleteTenant returned, and that returns a
\* tenant, returns the post-mutation state, also when the cache store was
\* unavailable while the mutation ran and is available again with its
\* earlier entries (stated for the runs in which no lookup was in progress
\* while the mutation ran).
C31_LookupAfterOutageSeesMutation ==
    \A c \in Lookups :
        (~overlapped /\ InvalidatedAndReturned /\ Authenticated(c) /\ fresh[c])
        => ReturnsStoredState(c)

----------------------------------------------------------------------------
\* Claims about rewriting and deleting sections.

\* the texts of the section's chunk rows, in the order of the collection
RowTexts(tenantId, sectionId) ==
    LET rows == SelectSeq(chunks, LAMBDA row : SectionFilter(row, tenantId, sectionId))
    IN [i \in 1..Len(rows) |-> rows[i].text]

\* the updateSection call of worker w, given new content, returned
UpdatedContent(w) ==
    /\ dop[w] = "updateSection"
    /\ dpc[w] = "returned"
    /\ darg[w].updates.content # <<>>

\* C32: when two updateSection calls with new content on the same section
\* have both returned, the section's chunk rows are the chunks of the content
\* of one of the two calls and the section's chunkCount is the number of its
\* chunk rows.
C32_ConcurrentUpdatesLeaveOneContent ==
    \A v, w \in Workers :
        (/\ v # w
         /\ UpdatedContent(v) /\ UpdatedContent(w)
         /\ dtenant[v] = dtenant[w] /\ darg[v].sectionId = darg[w].sectionId)
        => /\ \E u \in {v, w} :
                RowTexts(dtenant[u], darg[u].sectionId)
                    = chunkText(darg[u].updates.content, ChunkSize, ChunkOverlap)
           /\ \A doc \in sections :
                SectionFilter(doc, dtenant[v], darg[v].sectionId)
                    => doc.chunkCount = Len(RowTexts(dtenant[v], darg[v].sectionId))

\* the updateSection call of worker w, given new content, failed, and no
\* other call has been made
UpdateAloneFailed(w) ==
    /\ dop[w] = "updateSection"
    /\ dpc[w] = "threw"
    /\ darg[w].updates.content # <<>>
    /\ \A v \in Workers \ {w} : dpc[v] = "idle"

\* C33: when an updateSection call with new content has failed, the sections
\* and the chunk rows are what they were before the call (the call being the
\* only one made, that is the store the run began with).
C33_FailedUpdateChangesNothing ==
    \A w \in Workers :
        UpdateAloneFailed(w)
        => \E store \in {EmptyStore, SeededStore} :
                sections = store.sections /\ chunks = store.chunks

\* every call of the section store is over and none was cut short by a
\* rejected store call
AllCallsOver ==
    \A w \in Workers :
        /\ dpc[w] \in {"idle", "returned", "threw"}
        /\ dpc[w] = "threw" => dresult[w] # [error |-> "Store error"]

\* C34: once deleteSection has returned and the updateSection call that ran
\* concurrently on the same section is over, no chunk row carries the
\* deleted section's id, and every chunk row refers to an existing section
\* of the same tenant.
C34_DeletedSectionLeavesNoChunk ==
    \A v, w \in Workers :
        (/\ AllCallsOver
         /\ dop[w] = "deleteSection" /\ dpc[w] = "returned"
         /\ dop[v] = "updateSection"
         /\ dtenant[v] = dtenant[w] /\ darg[v].sectionId = darg[w].sectionId)
        => /\ RowsOf(dtenant[w], darg[w].sectionId) = {}
           /\ \A i \in 1..Len(chunks) :
                \E doc \in sections :
                    SectionFilter(doc, chunks[i].tenantId, chunks[i].sectionId)

\* every chunk row carries the title and the type of its section
ChunksCarrySectionTitle ==
    \A i \in 1..Len(chunks) : \A doc \in sections :
        SectionFilter(doc, chunks[i].tenantId, chunks[i].sectionId)
            => /\ chunks[i].sectionTitle = doc.title
               /\ chunks[i].sectionType = doc.type

\* C35: after the registerData calls that filled the store and one
\* updateSection call that returned (with or without new content), no other
\* call having been made, every chunk row's sectionTitle and sectionType
\* are the title and the type of its section.
C35_ChunkTitleFollowsSection ==
    \A w \in Workers :
        (/\ dop[w] = "updateSection" /\ dpc[w] = "returned"
         /\ \A v \in Workers \ {w} : dpc[v] = "idle")
        => ChunksCarrySectionTitle

----------------------------------------------------------------------------
\* Claims about the keyword tier's ranking.

\* the chunk rows the regex query of worker w's search matches and that are
\* not among the passages it returned
MatchedButAbsent(w) ==
    {i \in 1..Len(chunks) :
        /\ KeywordFilter(chunks[i], dtenant[w], darg[w].sectionType,
                         Keywords(darg[w].queryText))
        /\ \A j \in 1..Len(dresult[w]) : dresult[w][j].chunkId # chunks[i].chunkId}

\* C36: no chunk of the tenant that matches the query and is absent from the
\* keyword tier's output has a strictly higher keyword score than a passage
\* of the output, whatever the number of matching chunks.
C36_KeywordTierReturnsTheBest ==
    \A w \in Workers :
        KeywordTierReturned(w) =>
            \A i \in MatchedButAbsent(w) : \A j \in 1..Len(dresult[w]) :
                KeywordScore(chunks[i], Keywords(darg[w].queryText)) <= dresult[w][j].score

----------------------------------------------------------------------------
\* Claims about concurrent queries of one session.

\* the history holds the exchange of worker w, question then answer
HoldsExchange(history, w) ==
    \E i \in 1..(Len(history) - 1) :
        /\ history[i].role = "user"
        /\ history[i].content = darg[w].queryText
        /\ history[i + 1].role = "assistant"
        /\ history[i + 1].content = clocal[w].response

\* the processQuery call of worker w returned after saving its exchange
SavedAndReturned(w) == cpc[w] = "returned" /\ clocal[w].historyWrites = 1

\* C37: when two processQuery calls of the same session have both saved
\* their exchange and returned, the session history holds the exchange of
\* both (the history being far below its cap of 20 messages).
C37_NoExchangeLost ==
    \A v, w \in Workers :
        (v # w /\ SavedAndReturned(v) /\ SavedAndReturned(w)
            /\ clocal[v].sessionId = clocal[w].sessionId)
        => HoldsExchange(session, v) /\ HoldsExchange(session, w)

----------------------------------------------------------------------------
\* Claims about retryWithBackoff.

\* the invocations of fn that failed
Failures == {k \in 1..Len(retryCall.outcomes) : ~retryCall.outcomes[k].ok}

\* C38: retryWithBackoff invokes fn at most maxRetries times and never
\* after an invocation succeeded; it returns the value of that invocation;
\* the wait after the i-th failed attempt (i from 0) is initialDelay * 2^i,
\* and there is none after the maxRetries-th; it throws only after
\* maxRetries failed invocations, and then the error of the last one.  In
\* processQuery the completion is attempted at most MaxRetries times, while
\* the tiers of the retrieval are consulted once and the history is written
\* at most once.
C38_RetryIsBoundedAndLocal ==
    /\ Len(retryCall.outcomes) <= retryCall.maxRetries
    /\ \A k \in 1..(Len(retryCall.outcomes) - 1) : ~retryCall.outcomes[k].ok
    /\ retryCall.pc = "returned"
        => /\ retryCall.outcomes[Len(retryCall.outcomes)].ok
           /\ retryCall.result = retryCall.outcomes[Len(retryCall.outcomes)].value
    /\ \A k \in 1..Len(retryCall.delays) :
            retryCall.delays[k] = retryCall.initialDelay * 2^(k - 1)
    /\ Len(retryCall.delays) =
            IF retryCall.pc = "delay" THEN Cardinality(Failures) - 1
            ELSE IF Cardinality(Failures) = retryCall.maxRetries /\ retryCall.maxRetries > 0
                 THEN retryCall.maxRetries - 1
                 ELSE Cardinality(Failures)
    /\ retryCall.pc = "threw"
        => /\ Cardinality(Failures) = retryCall.maxRetries
           /\ retryCall.maxRetries > 0
                => retryCall.lastError = retryCall.outcomes[retryCall.maxRetries].value
    /\ \A w \in Workers :
            /\ clocal[w].completionCalls <= MaxRetries
            /\ clocal[w].historyWrites <= 1
            /\ Len(dlocal[w].consulted) <= 3
            /\ \A a, b \in 1..Len(dlocal[w].consulted) :
                    a # b => dlocal[w].consulted[a].tier # dlocal[w].consulted[b].tier

\* a call with maxRetries 3 and initialDelay 1000 threw the error of its
\* third invocation, different from the first, having waited 1000 and 2000;
\* another returned at its second invocation after one wait; and
\* processQuery returned after two failed attempts of the completion, with
\* one history write
C38_Witness ==
    /\ retryCall.pc = "threw"
    /\ retryCall.maxRetries = 3
    /\ retryCall.delays = <<InitialDelay, 2 * InitialDelay>>
    /\ retryCall.outcomes[1].value # retryCall.outcomes[3].value
    /\ \E w \in Workers :
            /\ cpc[w] = "returned"
            /\ clocal[w].completionCalls = MaxRetries
            /\ clocal[w].historyWrites = 1

----------------------------------------------------------------------------
\* Claims about the cost of chunkText.

\* ceil(n / d)
CeilDiv(n, d) == (n + d - 1) \div d

\* C39: a chunkText call with chunkSize > overlap >= 0 ends, its loop having
\* made exactly ceil(n / (chunkSize - overlap)) turns, n being the number of
\* tokens the split of the text gives, and it returns at most that many
\* chunks.
C39_ChunkTextTurns ==
    chunkResult.called =>
        /\ chunkResult.turns
                = CeilDiv(Len(Tokens), chunkArg.chunkSize - chunkArg.overlap)
        /\ Len(chunkResult.chunks) <= chunkResult.turns

\* a call on three tokens with chunkSize 3 and overlap 1 made two turns
\* and returned two chunks
C39_Witness ==
    /\ chunkResult.called
    /\ chunkArg.chunkSize = 3 /\ chunkArg.overlap = 1
    /\ Len(Tokens) = 3
    /\ chunkResult.turns = 2
    /\ Len(chunkResult.chunks) = 2

====
